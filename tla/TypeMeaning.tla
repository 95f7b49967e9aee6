----------------------------- MODULE TypeMeaning -----------------------------
(***************************************************************************)
(* What the types of a program mean, defined without the code: names are   *)
(* bound lexically, as TypeScript binds them, and an argument is a closure *)
(* over the place it is written at.  The reference for the rules.          *)
(*                                                                         *)
(* A meaning is a closure [type, args, open]: a node, the closures that    *)
(* the type parameters around it stand for, by position of the parameter,  *)
(* and the aliases being expanded, which met again are circular.           *)
(***************************************************************************)
EXTENDS KnownValueWidening

Closure(type, args, open) == [type |-> type, args |-> args, open |-> open]
Closed(type) == Closure(type, Nothing, {})

\* What binds a name in a node for the part of it that p is in.
BoundAt(a, name, p) ==
  LET field == node[SubSeq(p, 1, Len(a) + 1)].field
      named == {q \in DOMAIN node : node[q].name = name}
  IN  {q \in named :
         \/ node[q].field = "typeParameters" /\ Front(q) = a
         \/ node[q].type = "TSMappedType" /\ q = a /\ field = "typeAnnotation"
         \/ /\ node[q].type = "TSInferType" /\ field = "trueType"
            /\ a # q /\ IsPrefix(a, q) /\ node[SubSeq(q, 1, Len(a) + 1)].field = "extendsType"
         \/ node[q].type \in DeclaresType /\ EnclosingTypeScope(q) = a}

\* The innermost binder of the name of a reference, NULL for a global name.
Binder(reference) ==
  LET Bound(a) == BoundAt(a, node[reference].name, reference)
      around == {a \in Ancestors(reference) : Bound(a) # {}}
  IN  IF around = {} THEN NULL
      ELSE LET a == CHOOSE x \in around : \A y \in around : Len(y) <= Len(x)
           IN  CHOOSE q \in Bound(a) : TRUE

\* The closures that the parameters of an alias stand for at a reference.
Given(alias, reference, c) ==
  LET Bind(args, i) ==
        LET parameter == TypeParameters(alias)[i]
            argument == Argument(parameter, reference, i)
        IN  IF args = NULL \/ argument = NULL THEN NULL
            ELSE (parameter :> IF i <= Len(Arguments(reference))
                               THEN Closure(argument, c.args, c.open)
                               ELSE Closure(argument, args, c.open)) @@ args
  IN  FoldLeft(Bind, Nothing, [i \in 1..Len(TypeParameters(alias)) |-> i])

\* A closure whose type is no parenthesis, alias, known parameter or, when
\* transparent, readonly or wrapper; NULL for a circular or wrong type.
RECURSIVE HeadOf(_, _)
HeadOf(c, transparent) ==
  LET t == c.type
      On(type) == HeadOf(Closure(type, c.args, c.open), transparent)
      binder == Binder(t)
      args == Given(binder, t, c)
  IN  CASE node[t].type = "TSParenthesizedType" -> On(Field(t, "typeAnnotation"))
        [] node[t].type = "TSTypeOperator" /\ transparent -> On(Field(t, "typeAnnotation"))
        [] ~IsReference(t) /\ ~(node[t].type = "TSParenthesizedType")
             /\ ~(node[t].type = "TSTypeOperator" /\ transparent) -> c
        [] IsReference(t) ->
             IF binder = NULL
             THEN IF ~transparent \/ node[t].name \notin TransparentWrappers THEN c
                  ELSE IF Arguments(t) = <<>> THEN NULL ELSE On(Arguments(t)[1])
             ELSE IF binder \in DOMAIN c.args THEN HeadOf(c.args[binder], transparent)
             ELSE IF ~IsAlias(binder) THEN c
             ELSE IF binder \in c.open \/ args = NULL THEN NULL
             ELSE HeadOf(Closure(Field(binder, "typeAnnotation"), args, c.open \cup {binder}), transparent)

\* In a set of one, or {}.
Heads(c, transparent) == {HeadOf(c, transparent)} \ {NULL}

PartsOf(h) == {Closure(p, h.args, h.open) : p \in ToSet(Children(h.type))}

RECURSIVE Holds(_, _, _)
\* The type is the keyword, or a union with it; or a promise of one.
Holds(c, keyword, throughPromise) ==
  \E h \in Heads(c, FALSE) :
    \/ node[h.type].type = keyword
    \/ node[h.type].type = "TSUnionType" /\ \E p \in PartsOf(h) : Holds(p, keyword, throughPromise)
    \/ /\ throughPromise /\ IsReference(h.type) /\ node[h.type].name \in Promises
       /\ Arguments(h.type) # <<>>
       /\ Holds(Closure(Arguments(h.type)[1], h.args, h.open), keyword, throughPromise)

RECURSIVE IsAny(_)
IsAny(c) ==
  \E h \in Heads(c, TRUE) :
    \/ node[h.type].type = "TSAnyKeyword"
    \/ node[h.type].type = "TSIntersectionType" /\ \E p \in PartsOf(h) : IsAny(p)

\* An object type without members, besides optional ones of type never.
Empty(t) ==
  \/ node[t].type = "TSTypeLiteral" /\ HasEffectivelyEmptyMembers(t)
  \/ /\ IsReference(t) /\ Binder(t) # NULL /\ node[Binder(t)].type = "TSInterfaceDeclaration"
     /\ FieldList(Binder(t), "extends") = <<>> /\ HasEffectivelyEmptyMembers(Binder(t))

RECURSIVE Unsafe(_)
\* unknown, any, object or {}, or made of them.
Unsafe(c) ==
  \E h \in Heads(c, TRUE) :
    \/ node[h.type].type \in {"TSUnknownKeyword", "TSAnyKeyword", "TSObjectKeyword"}
    \/ Empty(h.type)
    \/ node[h.type].type = "TSUnionType" /\ \E p \in PartsOf(h) : Unsafe(p)
    \/ node[h.type].type = "TSIntersectionType" /\ (IsAny(h) \/ \A p \in PartsOf(h) : Unsafe(p))

RECURSIVE ValuesOf(_)
\* The values of a dictionary; none for another type.
ValuesOf(c) ==
  LET Global(t, names) == IsReference(t) /\ Binder(t) = NULL /\ node[t].name \in names
      OwnersOf(t) == IF node[t].type = "TSMappedType" THEN {t}
                     ELSE {m \in ToSet(FieldList(t, "members")) : node[m].type = "TSIndexSignature"}
      ValuesIn(t) == IF Global(t, {"Record"}) /\ Len(Arguments(t)) > 1 THEN {Arguments(t)[2]}
                     ELSE {Field(owner, "typeAnnotation") : owner \in OwnersOf(t)} \ {NULL}
      Values(h) == IF Global(h.type, {"Pick", "Omit"}) /\ Arguments(h.type) # <<>>
                   THEN ValuesOf(Closure(Arguments(h.type)[1], h.args, h.open))
                   ELSE {Closure(type, h.args, {}) : type \in ValuesIn(h.type)}
  IN  UNION {Values(h) : h \in Heads(c, TRUE)}

UnsafeDictionary(c) == \E value \in ValuesOf(c) : Unsafe(value)

\* Where values flow to, and what decides an argument, is the rule's own (Flows,
\* PredicateArguments, CallArgumentEvidence); what that means is not.
RECURSIVE OpenKey(_)
\* Every string, number or symbol is a key.  The rules do not look through
\* generic aliases here, and this definition follows them in that.
OpenKey(c) ==
  LET t == c.type
      binder == Binder(t)
      On(type, open) == OpenKey(Closure(type, c.args, open))
  IN  CASE node[t].type = "TSParenthesizedType" -> On(Field(t, "typeAnnotation"), c.open)
        [] node[t].type \in {"TSStringKeyword", "TSNumberKeyword", "TSSymbolKeyword"} -> TRUE
        [] node[t].type = "TSUnionType" -> \E member \in ToSet(Children(t)) : On(member, c.open)
        [] IsReference(t) ->
             IF binder = NULL THEN node[t].name = "PropertyKey"
             ELSE IF binder \in DOMAIN c.args THEN OpenKey(c.args[binder])
             ELSE /\ IsAlias(binder) /\ TypeParameters(binder) = <<>> /\ binder \notin c.open
                  /\ On(Field(binder, "typeAnnotation"), c.open \cup {binder})
        [] OTHER -> FALSE

RECURSIVE Outside(_)
\* A type without the parentheses, readonly and wrappers around it.
Outside(t) ==
  IF node[t].type \in {"TSParenthesizedType", "TSTypeOperator"} THEN Outside(Field(t, "typeAnnotation"))
  ELSE IF IsReference(t) /\ node[t].name \in TransparentWrappers /\ Binder(t) = NULL /\ Arguments(t) # <<>>
  THEN Outside(Arguments(t)[1]) ELSE t

\* A dictionary of any key; a mapped type counts as one where it is written.
Open(t) ==
  \E h \in Heads(Closed(t), TRUE) :
    LET Key(type) == OpenKey(Closure(type, h.args, h.open))
    IN  \/ \E m \in ToSet(Children(h.type)) : node[m].type = "TSIndexSignature"
        \/ node[h.type].type = "TSMappedType" /\ (h.type = Outside(t) \/ Key(Field(h.type, "constraint")))
        \/ /\ IsReference(h.type) /\ node[h.type].name = "Record" /\ Binder(h.type) = NULL
           /\ (Arguments(h.type) = <<>> \/ Key(Arguments(h.type)[1]))

IsApplied(t) == IsReference(t) /\ Binder(t) # NULL /\ TypeParameters(Binder(t)) # <<>>

\* Less is known of a value as one of this type than as the value it is: a
\* dictionary of any key, unknown or object where no generic type names them,
\* or an object type without a name.
Broad(t) ==
  \/ Open(t)
  \/ /\ ~IsApplied(Outside(t))
     /\ \E h \in Heads(Closed(t), TRUE) : node[h.type].type \in {"TSUnknownKeyword", "TSObjectKeyword"}
  \/ node[Outside(t)].type = "TSTypeLiteral" /\ Children(Outside(t)) # <<>>

\* What an expression stands for: the inside of an assertion, and the value of
\* a constant, which is declared once and never written again.
StandsFor(e) ==
  LET variable == ResolveVariable(e)
      Constant(d) ==
        /\ variable = {d} /\ node[d].type = "VariableDeclarator" /\ node[Front(d)].name = "const"
        /\ \A a \in DOMAIN node : node[a].type = "AssignmentExpression" =>
             ~(IsIdentifier(Field(a, "left")) /\ ResolveVariable(Field(a, "left")) = variable)
  IN  IF IsIdentifier(e) THEN {Field(d, "init") : d \in {x \in variable : Constant(x)}} \ {NULL}
      ELSE {Field(e, "expression") : x \in {y \in {e} : node[y].type \in Wrappings}}

RECURSIVE Origins(_)
Origins(es) ==
  LET more == es \cup UNION {StandsFor(e) : e \in es} IN IF more = es THEN es ELSE Origins(more)
IsWrittenOut(e) == \E origin \in Origins({e}) : node[origin].type \in KnownEvidence

\* An empty object that becomes a dictionary is filled later.
Loses(e, type) == Broad(type) /\ IsWrittenOut(e) /\ ~(Open(type) /\ IsEmptyObjectExpression(e))

\* A value whose type is known is asked what type it is.
IsAsked(e) ==
  \E x \in CallArgumentEvidence(e, {}) : node[x].type \in KnownEvidence \/ ~Unsafe(Closed(x))

-----------------------------------------------------------------------------
(* Where names alone tell types apart.  The rules keep substitutions and     *)
(* the aliases under resolution by name, across scopes; what they say is     *)
(* compared with the meaning of programs whose names allow it.               *)

Binds(p) == \/ node[p].field = "typeParameters"
            \/ node[p].type \in {"TSMappedType", "TSInferType"}
Declares(p) == node[p].type \in DeclaresType
NamesIn(positions) == {node[p].name : p \in positions}
References(from) == {p \in DOMAIN node : IsPrefix(from, p) /\ IsReference(p)}
Aliases == {p \in DOMAIN node : IsAlias(p)}
AliasNames == NamesIn(Aliases)
MentionedIn(type) == NamesIn(References(type)) \cap AliasNames

\* Sets of aliases that mention no other alias, and what a set leads to: the
\* least of them around it.
Enclosed ==
  LET uses == {<<node[a].name, n>> : a \in Aliases, n \in AliasNames}
      mentions == {u \in uses : \E a \in Aliases :
                     node[a].name = u[1] /\ u[2] \in MentionedIn(Field(a, "typeAnnotation"))}
  IN  {S \in SUBSET AliasNames : \A m \in mentions : m[1] \in S => m[2] \in S}
Reach(names, enclosed) == {n \in AliasNames : \A S \in enclosed : names \cap AliasNames \subseteq S => n \in S}

\* A type parameter shares its name with nothing; a declared name that another
\* scope declares too is a plain alias of no other declared type; no argument
\* leads to an alias that the alias it is given to leads to as well, nor is it
\* made of a parameter of such an alias, except that parameter in its own place.
Hygienic ==
  /\ \A p, q \in DOMAIN node : Binds(p) /\ (Binds(q) \/ Declares(q)) /\ p # q => node[p].name # node[q].name
  /\ \A p \in DOMAIN node : Binds(p) => node[p].name \notin BuiltIns \cup Promises
  /\ \A p, q \in DOMAIN node :
       Declares(p) /\ Declares(q) /\ p # q /\ node[p].name = node[q].name =>
         /\ EnclosingTypeScope(p) # EnclosingTypeScope(q) /\ IsAlias(p) /\ TypeParameters(p) = <<>>
         /\ {r \in References(p) : Binder(r) # NULL} = {}
  /\ \A p \in DOMAIN node : node[p].type = "TSInterfaceDeclaration" => EnclosingTypeScope(p) = <<>>
  /\ \A enclosed \in {Enclosed} :
       /\ \A r \in References(<<>>) : \A i \in 1..Len(Arguments(r)) :
            /\ Reach(MentionedIn(Arguments(r)[i]), enclosed) \cap Reach({node[r].name}, enclosed) = {}
            /\ \A p \in References(Arguments(r)[i]) :
                 /\ Binder(p) # NULL /\ node[Binder(p)].field = "typeParameters"
                 /\ ~(p = Arguments(r)[i] /\ Binder(r) = Front(Binder(p)) /\ Binder(p) = TypeParameters(Binder(r))[i])
                 => node[Front(Binder(p))].name \notin Reach({node[r].name}, enclosed)
       /\ \A p \in DOMAIN node : node[p].field = "default" =>
            node[Front(Front(p))].name \notin Reach(MentionedIn(p), enclosed)
=============================================================================
