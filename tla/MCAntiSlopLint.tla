---------------------------- MODULE MCAntiSlopLint ----------------------------
(* Programs for AntiSlopLint.  A constructor makes a subtree with its kids    *)
(* and each kid the field that holds it; Flatten names its nodes.             *)
EXTENDS AntiSlopLint

Node(type, name, kids) == [type |-> type, name |-> name, field |-> "", kids |-> kids]
As(field, trees) == [i \in 1..Len(trees) |-> [trees[i] EXCEPT !.field = field]]

RECURSIVE At(_, _)
At(tree, p) == IF p = <<>> THEN tree ELSE At(tree.kids[Head(p)], Tail(p))
RECURSIVE Positions(_)
Positions(tree) == {<<>>} \cup UNION {{<<i>> \o q : q \in Positions(tree.kids[i])} : i \in DOMAIN tree.kids}
Flatten(tree) ==
  [p \in Positions(tree) |-> LET n == At(tree, p)
                             IN  [type |-> n.type, name |-> n.name, field |-> n.field, kids |-> Len(n.kids)]]

Keyword(type) == Node(type, "", <<>>)
unknown == Keyword("TSUnknownKeyword")
any == Keyword("TSAnyKeyword")
object == Keyword("TSObjectKeyword")
string == Keyword("TSStringKeyword")
never == Keyword("TSNeverKeyword")
Ref(name, args) == Node("TSTypeReference", name, As("typeArguments", args))
Plain(name) == Ref(name, <<>>)
Many(type, parts) == Node(type, "", As("types", parts))
One(type, name, inner) == Node(type, name, As("typeAnnotation", <<inner>>))
Literal(members) == Node("TSTypeLiteral", "", As("members", members))
Property(name, type) == One("TSPropertySignature", name, type)
Index(value) == One("TSIndexSignature", "", value)
Mapped(key, value) ==
  Node("TSMappedType", key, As("constraint", <<string>>) \o As("typeAnnotation", value))
Conditional(check, extends, then, else) ==
  Node("TSConditionalType", "", As("checkType", <<check>>) \o As("extendsType", <<extends>>)
                                \o As("trueType", <<then>>) \o As("falseType", <<else>>))
Param(name, constraint, default) ==
  Node("TSTypeParameter", name, As("constraint", constraint) \o As("default", default))
T(name) == Param(name, <<>>, <<>>)
Alias(name, params, type) ==
  Node("TSTypeAliasDeclaration", name, As("typeParameters", params) \o As("typeAnnotation", <<type>>))
Interface(name, members) == Node("TSInterfaceDeclaration", name, As("members", members))
Var(name, type) == One("Identifier", name, type)
Function(tparams, params, result, body) ==
  Node("FunctionDeclaration", "f", As("typeParameters", tparams) \o As("params", params)
       \o As("returnType", result) \o As("body", <<Node("BlockStatement", "", As("body", body))>>))
Program(statements) == Flatten(Node("Program", "", As("body", statements)))

-----------------------------------------------------------------------------
(* A piece is a type with the declarations it needs.                          *)

Piece(needs, type) == [needs |-> needs, type |-> type]
Only(types) == {Piece(<<>>, type) : type \in types}

E == Alias("E", <<>>, Many("TSUnionType", <<string, unknown>>))
Id == Alias("Id", <<T("A")>>, Plain("A"))
Dict == Alias("Dict", <<T("B")>>, Ref("Record", <<string, Plain("B")>>))
Deep == Alias("Deep", <<T("D")>>, Ref("Dict", <<Ref("Readonly", <<Plain("D")>>)>>))
Defaults == Alias("Defaults", <<Param("C", <<>>, <<unknown>>), Param("F", <<>>, <<Plain("C")>>)>>,
                  Mapped("K", <<Plain("F")>>))

Declared ==
  {Piece(<<E>>, Plain("E")), Piece(<<Id>>, Ref("Id", <<unknown>>)), Piece(<<Id>>, Ref("Id", <<string>>)),
   Piece(<<Interface("I", <<>>)>>, Plain("I")),
   Piece(<<Interface("J", <<Property("", string)>>)>>, Plain("J"))}
Undeclared ==
  Only({unknown, object, string, Literal(<<>>), Literal(<<Property("optional", never)>>),
        Literal(<<Property("", unknown)>>),
        Many("TSUnionType", <<string, any>>), Many("TSIntersectionType", <<unknown, string>>),
        Many("TSIntersectionType", <<string, any>>),
        One("TSParenthesizedType", "", unknown), Ref("Partial", <<object>>)})
Values == Declared \cup Undeclared

Pairs ==
  {Piece(v.needs \o w.needs, Many(kind, <<v.type, w.type>>)) :
     kind \in {"TSUnionType", "TSIntersectionType"}, v \in Undeclared, w \in Values}

Dictionaries(v) ==
  {Piece(v.needs, Ref("Record", <<string, v.type>>)),
   Piece(v.needs, Literal(<<Index(v.type)>>)),
   Piece(v.needs, Ref("Readonly", <<Mapped("K", <<v.type>>)>>)),
   Piece(v.needs, Ref("Omit", <<Ref("Record", <<string, v.type>>), string>>)),
   Piece(v.needs \o <<Dict, Deep>>, Ref("Deep", <<v.type>>)),
   Piece(v.needs \o <<Defaults>>, Ref("Defaults", <<v.type>>)),
   Piece(v.needs \o <<Alias("G", <<>>, Literal(<<Index(v.type)>>))>>, Plain("G"))}

Statements(t) ==
  {<<Function(<<>>, <<Var("x", t.type)>>, <<>>, <<>>)>>,
   <<Alias("Z", <<>>, Many("TSUnionType", <<string, t.type>>))>>,
   <<Function(<<Param("H", <<t.type>>, <<>>)>>, <<Var("x", Plain("H"))>>, <<>>, <<>>)>>,
   <<Alias("Outer", <<>>, string),
     Function(<<>>, <<>>, <<Plain("Outer")>>, <<Alias("Outer", <<>>, Ref("Record", <<string, unknown>>)),
                                                Alias("Inner", <<>>, Plain("Outer"))>>)>>}

Uses(t) ==
  {<<Function(<<>>, <<Var("x", t.type), Node("RestElement", "", As("argument", <<Var("y", object)>>))>>,
              <<Ref("Promise", <<t.type>>)>>, <<>>)>>,
   <<Function(<<>>, <<Var("cause", t.type)>>, <<Node("TSTypePredicate", "x", <<>>)>>, <<>>)>>,
   <<Alias("Y", <<>>, Many("TSUnionType", <<string, t.type>>)),
     Function(<<>>, <<Var("x", Plain("Y"))>>, <<Ref("Promise", <<Plain("Y")>>)>>, <<>>)>>}

\* Circular, recursive and shadowing declarations.
Special ==
  {<<Alias("X", <<>>, Plain("Y")), Alias("Y", <<>>, Many("TSUnionType", <<Plain("X"), unknown>>)),
     Alias("W", <<>>, Ref("Record", <<string, Plain("X")>>))>>,
   <<Alias("L", <<T("M")>>, Literal(<<Index(Many("TSUnionType", <<Plain("M"), Ref("L", <<Ref("Readonly", <<Plain("M")>>)>>)>>))>>)),
     Function(<<>>, <<Var("x", Ref("L", <<string>>)), Var("y", Ref("L", <<unknown>>))>>, <<>>, <<>>)>>,
   <<Alias("Record", <<T("N"), T("O")>>, Plain("N")), Alias("V", <<>>, Ref("Record", <<string, unknown>>))>>,
   <<Interface("S", <<Index(unknown)>>), Alias("E", <<>>, unknown),
     Function(<<T("U")>>, <<>>, <<Plain("E")>>, <<Alias("E", <<>>, string), Interface("I2", <<>>)>>)>>,
   <<Alias("Q", <<T("R")>>, Conditional(Plain("R"), Node("TSInferType", "U", <<>>),
                                        Ref("Record", <<string, Plain("U")>>), Ref("Record", <<string, unknown>>)))>>,
   <<Alias("V", <<>>, Literal(<<Index(Many("TSUnionType", <<unknown, Ref("Record", <<string, object>>)>>)),
                                Property("", Ref("Record", <<string, any>>))>>))>>,
   \* Names that one alias shares with another: capture, and no end.
   <<Alias("P", <<T("A"), T("B")>>, Ref("Record", <<string, Plain("B")>>)),
     Alias("Q", <<T("A")>>, Ref("P", <<string, Plain("A")>>)),
     Function(<<>>, <<Var("x", Ref("Q", <<unknown>>))>>, <<>>, <<>>)>>,
   <<Dict, Alias("Wrap", <<T("B")>>, Ref("Dict", <<Ref("Readonly", <<Plain("B")>>)>>)),
     Function(<<>>, <<Var("x", Ref("Wrap", <<unknown>>))>>, <<>>, <<>>)>>,
   <<Interface("S", <<Index(Ref("Wrap", <<unknown>>))>>),
     Id, Alias("Wrap", <<T("A")>>, Ref("Id", <<Ref("Readonly", <<Plain("A")>>)>>))>>}

-----------------------------------------------------------------------------
(* Values, the types they flow into and the ways to get there.                *)

Named(name) == Node("Identifier", name, <<>>)
Declare(kind, id, init) ==
  Node("VariableDeclaration", kind,
       As("declarations", <<Node("VariableDeclarator", "", As("id", <<id>>) \o As("init", init))>>))
Const(name, init) == Declare("const", Named(name), <<init>>)
Statement(e) == Node("ExpressionStatement", "", As("expression", <<e>>))
Assign(name, operator, e) ==
  Statement(Node("AssignmentExpression", operator, As("left", <<Named(name)>>) \o As("right", <<e>>)))
Wrap(type, e) == Node(type, "", As("expression", <<e>>))
Asserted(type, e, t) == Node(type, "", As("expression", <<e>>) \o As("typeAnnotation", <<t>>))
Call(callee, args) == Node("CallExpression", "", As("callee", <<callee>>) \o As("arguments", args))
Return(e) == Node("ReturnStatement", "", As("argument", e))
Arrow(params, result, body) ==
  Node("ArrowFunctionExpression", "", As("params", params) \o As("returnType", result) \o As("body", <<body>>))
Class(kind, t, e) ==
  Node("ClassDeclaration", "C",
       As("body", <<Node(kind, "p", As("typeAnnotation", <<t>>) \o As("value", e))>>))
empty == Node("ObjectExpression", "", <<>>)
made == Node("ObjectExpression", "", As("properties", <<Node("Property", "", As("value", <<Node("Literal", "", <<>>)>>))>>))
key == Node("TSLiteralType", "", <<>>)

\* An expression with the statements before it.
Expressions ==
  {Piece(<<>>, made), Piece(<<>>, empty), Piece(<<>>, Named("undeclared")),
   Piece(<<Const("a", made), Const("b", Wrap("TSNonNullExpression", Named("a")))>>, Named("b")),
   Piece(<<Const("a", Named("b")), Const("b", Named("a"))>>, Named("a")),
   Piece(<<Declare("let", Named("a"), <<made>>)>>, Named("a")),
   Piece(<<Const("a", made), Assign("a", "+=", empty)>>, Named("a")),
   Piece(<<Const("a", empty)>>, Wrap("ParenthesizedExpression", Named("a"))),
   Piece(<<Declare("const", Named("a"), <<>>)>>, Named("a")),
   Piece(<<Const("a", made), Function(<<>>, <<>>, <<>>, <<>>), Function(<<>>, <<>>, <<>>, <<>>)>>,
         Call(Named("f"), <<Named("a")>>)),
   Piece(<<>>, Asserted("TSTypeAssertion", Asserted("TSSatisfiesExpression", made, object), string))}

Box == Alias("Box", <<T("P")>>, Ref("Record", <<Plain("P"), string>>))
Keys == Alias("Keys", <<>>, Many("TSUnionType", <<key, Plain("PropertyKey")>>))
Knot == Alias("Knot", <<>>, Many("TSUnionType", <<key, Plain("Knot")>>))
Slots == Alias("Slots", <<T("S")>>, Mapped("K", <<string>>))
Narrow == Node("TSMappedType", "L", As("constraint", <<key>>) \o As("typeAnnotation", <<string>>))
Targets ==
  Only({unknown, object, string, Literal(<<>>), Literal(<<Property("", string)>>), Narrow,
        One("TSTypeOperator", "readonly", Literal(<<Index(string)>>)), Plain("Record"),
        Ref("Record", <<key, string>>), Ref("Partial", <<Ref("Record", <<string, string>>)>>)})
  \cup {Piece(<<Box>>, Ref("Box", <<string>>)), Piece(<<Box>>, Ref("Readonly", <<Ref("Box", <<key>>)>>)),
        Piece(<<Id>>, Ref("Id", <<unknown>>)), Piece(<<Id, Box>>, Ref("Id", <<Ref("Record", <<string, string>>)>>)),
        Piece(<<Id>>, Ref("Record", <<Ref("Id", <<string>>), string>>)),
        Piece(<<Alias("Text", <<T("U1")>>, string)>>, Ref("Record", <<Ref("Text", <<unknown>>), string>>)),
        Piece(<<Keys>>, Ref("Record", <<Plain("Keys"), string>>)),
        Piece(<<Knot>>, Ref("Record", <<Plain("Knot"), string>>)),
        Piece(<<Slots>>, Ref("Slots", <<key>>)), Piece(<<Slots>>, Plain("Slots")),
        Piece(<<Alias("M", <<>>, Narrow), Alias("M2", <<>>, Plain("M"))>>, Plain("M2")),
        Piece(<<Alias("N", <<>>, object)>>, Plain("N")),
        Piece(<<Alias("O", <<>>, Literal(<<Property("", string)>>))>>, Plain("O")),
        Piece(<<Defaults>>, Plain("Defaults")), Piece(<<Interface("I", <<Index(string)>>)>>, Plain("I")),
        Piece(<<Alias("X", <<>>, Plain("Y")), Alias("Y", <<>>, Plain("X"))>>, Plain("X")),
        Piece(<<Alias("Record", <<T("N"), T("O")>>, Plain("N"))>>, Ref("Record", <<string, unknown>>))}

Into(t, e) == Declare("const", Var("v", t), <<e>>)
Ways(t, e) ==
  {<<Declare("let", Var("v", t), <<>>), Assign("v", "=", e)>>,
   <<Class("PropertyDefinition", t, <<e>>)>>, <<Class("AccessorProperty", t, <<e>>)>>,
   <<Class("PropertyDefinition", t, <<>>)>>,
   <<Function(<<>>, <<Named("a")>>, <<t>>, <<Return(<<e>>), Return(<<>>)>>)>>,
   <<Const("g", Arrow(<<>>, <<t>>, e))>>,
   <<Const("g", Arrow(<<>>, <<t>>, Node("BlockStatement", "", As("body", <<Return(<<e>>)>>))))>>,
   <<Statement(Asserted("TSAsExpression", e, t))>>, <<Statement(Asserted("TSTypeAssertion", e, t))>>,
   <<Statement(Asserted("TSAsExpression", Asserted("TSAsExpression", e, t), t))>>}

\* Calls of type predicates.
Predicate(params, subject) == Function(<<>>, params, <<Node("TSTypePredicate", subject, <<>>)>>, <<>>)
Answers(type) == Declare("const", Named("h"), <<Wrap("ParenthesizedExpression", Arrow(<<>>, <<type>>, empty))>>)
Arguments1 ==
  {Piece(<<>>, Asserted("TSAsExpression", made, t)) : t \in {string, unknown, Plain("E")}}
  \cup {Piece(<<Declare("let", Var("a", t), <<made>>)>>, Wrap("TSNonNullExpression", Named("a"))) : t \in {string, unknown}}
  \cup {Piece(<<Answers(t)>>, Call(Named("h"), <<>>)) : t \in {string, Ref("Readonly", <<Plain("E")>>)}}
  \cup {Piece(<<>>, Node("SpreadElement", "", As("argument", <<made>>))), Piece(<<>>, Call(Named("h"), <<>>))}
Predicates ==
  {Predicate(<<Var("x", unknown)>>, "x"), Predicate(<<Var("x", string)>>, "x"), Predicate(<<Var("x", unknown)>>, "y"),
   Predicate(<<Var("y", string), Node("AssignmentPattern", "", As("left", <<Var("x", unknown)>>))>>, "x")}
Asking(e) == {<<E, p, Statement(Call(Named("f"), args))>> : p \in Predicates, args \in {<<e>>, <<Named("v"), e>>}}
Asked ==
  {<<E, Predicate(<<Var("x", unknown)>>, "x"),
     Function(<<>>, <<Var("c", t)>>, <<>>, <<Statement(Call(Named("f"), <<Named("c")>>))>>)>> : t \in {string, unknown}}
  \cup {<<Statement(Call(Arrow(<<Var("x", unknown)>>, <<Node("TSTypePredicate", "x", <<>>)>>, empty), <<made>>))>>}

ValuePrograms ==
  {t.needs \o e.needs \o <<Into(t.type, e.type)>> : t \in Targets, e \in Expressions}
  \cup UNION {{e.needs \o w : w \in Ways(t, e.type)} : t \in {unknown, Ref("Record", <<string, string>>), string},
                                                         e \in Expressions}
  \cup UNION {{e.needs \o s : s \in Asking(e.type)} : e \in Expressions \cup Arguments1}
  \cup Asked
  \cup {<<Id, Alias("Wrap", <<T("A")>>, Ref("Id", <<Ref("Readonly", <<Plain("A")>>)>>)),
          Into(Ref("Wrap", <<unknown>>), made)>>}

MCPrograms ==
  UNION {{Program(d.needs \o s) : s \in Statements(d)} : d \in UNION {Dictionaries(v) : v \in Values}}
  \cup {Program(d.needs \o <<Alias("Z", <<>>, d.type)>>) : d \in UNION {Dictionaries(v) : v \in Pairs}}
  \cup UNION {{Program(v.needs \o s) : s \in Uses(v)} : v \in Values}
  \cup {Program(s) : s \in Special \cup ValuePrograms}
=============================================================================
