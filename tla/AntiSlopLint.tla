----------------------------- MODULE AntiSlopLint -----------------------------
(***************************************************************************)
(* Oxlint runs the anti-slop rules over a program: it enters the nodes of   *)
(* the tree in depth-first order and calls each rule's handler for the     *)
(* type of the node.  The rules of this module are those about types,      *)
(* no-unsafe-dictionary-type, no-unknown-type-aliases,                     *)
(* no-unknown-parameters, no-object-parameters, no-unknown-returns and     *)
(* no-known-value-widening.                                                *)
(* A handler that throws ends the rules for this program.                  *)
(***************************************************************************)
EXTENDS TypeMeaning

CONSTANT Programs     \* the programs that are linted

VARIABLES
  todo,      \* the nodes to enter, the next one first
  reports,   \* pairs of a rule and the node it reports
  phase      \* "running", "done" or "crashed"

vars == <<node, environment, todo, reports, phase>>

Init ==
  /\ node \in Programs
  /\ environment = NULL
  /\ todo = <<<<>>>>
  /\ reports = {}
  /\ phase = "running"

-----------------------------------------------------------------------------
(* no-unsafe-dictionary-type.                                               *)

TypeNodeKinds ==
  {"JSDocNonNullableType", "JSDocNullableType", "JSDocUnknownType", "TSAnyKeyword", "TSArrayType",
   "TSBigIntKeyword", "TSBooleanKeyword", "TSConditionalType", "TSConstructorType", "TSFunctionType",
   "TSImportType", "TSIndexedAccessType", "TSInferType", "TSIntersectionType", "TSIntrinsicKeyword",
   "TSLiteralType", "TSMappedType", "TSNamedTupleMember", "TSNeverKeyword", "TSNullKeyword",
   "TSNumberKeyword", "TSObjectKeyword", "TSParenthesizedType", "TSStringKeyword", "TSSymbolKeyword",
   "TSTemplateLiteralType", "TSThisType", "TSTupleType", "TSTypeLiteral", "TSTypeOperator",
   "TSTypePredicate", "TSTypeQuery", "TSTypeReference", "TSUndefinedKeyword", "TSUnionType",
   "TSUnknownKeyword", "TSVoidKeyword"}

IsInsideTypeAliasDeclaration(p) == \E a \in Ancestors(p) : IsAlias(a)
IsPlainAliasConsumerUse(p) ==
  /\ IsReference(p) /\ Arguments(p) = <<>>
  /\ VisibleTypeAlias(node[p].name, p) # NULL
  /\ ~IsInsideTypeAliasDeclaration(p)
IsInsideTypeParameterConstraint(p) ==
  \E k \in 1..Len(p) : node[SubSeq(p, 1, k)].field = "constraint"
                       /\ node[SubSeq(p, 1, k - 1)].type = "TSTypeParameter"

Exempt(p) == IsInsideTypeParameterConstraint(p) \/ IsPlainAliasConsumerUse(p)
\* The verdicts on a type and on the types around it.
Verdicts(p) ==
  [a \in {p} \cup {x \in Ancestors(p) : node[x].type \in TypeNodeKinds} |-> ClassifyUnsafeDictionary(a)]

ShouldReportType(p, verdict) ==
  /\ ~Exempt(p)
  /\ verdict[p] # NULL
  /\ \A a \in DOMAIN verdict \ {p} : verdict[a] = NULL

\* Its own classification overflows the stack or, when it is unsafe, that of
\* the innermost dictionary around it.
Throws(p, verdict) ==
  /\ ~Exempt(p)
  /\ \/ verdict[p] = OVERFLOW
     \/ /\ verdict[p] # NULL
        /\ \E a \in DOMAIN verdict \ {p} :
             /\ verdict[a] = OVERFLOW
             /\ \A x \in DOMAIN verdict \ {p} : verdict[x] # NULL => Len(x) <= Len(a)

-----------------------------------------------------------------------------
(* The annotations of functions.                                            *)

\* `cause`, and what a type predicate is about, may be unknown.
MayBeUnknown(owner, parameter) ==
  LET name == FunctionParameterBindingName(parameter)
      predicate == Field(owner, "returnType")
  IN  \/ name = "cause"
      \/ predicate # NULL /\ node[predicate].type = "TSTypePredicate" /\ node[predicate].name = name

AnnotatedParameters(owner) ==
  {p \in ToSet(FieldList(owner, "params")) : FunctionParameterTypeAnnotation(p) # NULL}

ParameterReports(owner) ==
  {<<"no-unknown-parameters", FunctionParameterTypeAnnotation(p)>> :
     p \in {q \in AnnotatedParameters(owner) :
              ContainsUnknownType(FunctionParameterTypeAnnotation(q)) /\ ~MayBeUnknown(owner, q)}}

ObjectParameterReports(owner) ==
  {<<"no-object-parameters", FunctionParameterTypeAnnotation(p)>> :
     p \in {q \in AnnotatedParameters(owner) :
              ResolvedTypeMatches(FunctionParameterTypeAnnotation(q), "TSObjectKeyword", FALSE)}}

ReturnReports(owner) ==
  {<<"no-unknown-returns", r>> :
     r \in {x \in ToSet(FieldList(owner, "returnType")) : ResolvedTypeMatches(x, "TSUnknownKeyword", TRUE)}}

-----------------------------------------------------------------------------
(* The handlers.                                                            *)

Entered == Head(todo)
Enter(kinds) == phase = "running" /\ todo # <<>> /\ node[Entered].type \in kinds

Proceed(found) ==
  /\ reports' = reports \cup found
  /\ todo' = Children(Entered) \o Tail(todo)
  /\ UNCHANGED <<node, phase>>

Crash ==
  /\ phase' = "crashed"
  /\ UNCHANGED <<node, environment, todo, reports>>

EnterProgram ==
  /\ Enter({"Program"})
  /\ environment' = CreateTypeEnvironment
  /\ Proceed({})

DictionaryKinds == {"TSTypeReference", "TSTypeLiteral", "TSMappedType"}

DictionaryReport(p, unsafe) == {<<"no-unsafe-dictionary-type", x>> : x \in {y \in {p} : unsafe}}

EnterType ==
  /\ Enter(DictionaryKinds)
  /\ \E verdict \in {Verdicts(Entered)} :
       \/ Throws(Entered, verdict) /\ Crash
       \/ /\ ~Throws(Entered, verdict)
          /\ Proceed(DictionaryReport(Entered, ShouldReportType(Entered, verdict)))
          /\ UNCHANGED environment

\* Index signatures of interfaces and classes; those of type literals are
\* reported with the literal.
IndexSignatureValue(p) ==
  IF Field(p, "typeAnnotation") = NULL \/ node[Front(p)].type = "TSTypeLiteral" THEN NULL
  ELSE ClassifyUnsafeDictionaryValue(Field(p, "typeAnnotation"))

EnterIndexSignature ==
  /\ Enter({"TSIndexSignature"})
  /\ \E value \in {IndexSignatureValue(Entered)} :
       \/ value = OVERFLOW /\ Crash
       \/ /\ value # OVERFLOW
          /\ Proceed(DictionaryReport(Entered, value # NULL))
          /\ UNCHANGED environment

EnterAlias ==
  /\ Enter({"TSTypeAliasDeclaration"})
  /\ Proceed({<<"no-unknown-type-aliases", p>> :
                p \in {q \in {Entered} :
                         ResolvedTypeMatches(Field(q, "typeAnnotation"), "TSUnknownKeyword", FALSE)}})
  /\ UNCHANGED environment

FunctionReports(p) ==
  IF node[p].type \in FunctionKinds
  THEN ParameterReports(p) \cup ObjectParameterReports(p) \cup ReturnReports(p) ELSE {}

\* Functions, calls and what values flow through; an arrow function is both.
EnterFunctionOrFlow ==
  /\ Enter(FunctionKinds \cup FlowKinds \cup {"CallExpression"})
  /\ \E widened \in {WideningReports(Entered)} :
       \/ widened = OVERFLOW /\ Crash
       \/ /\ widened # OVERFLOW
          /\ Proceed(FunctionReports(Entered) \cup {<<"no-known-value-widening", e>> : e \in widened})
          /\ UNCHANGED environment

Handled ==
  {"Program", "TSIndexSignature", "TSTypeAliasDeclaration", "CallExpression"}
    \cup DictionaryKinds \cup FunctionKinds \cup FlowKinds

EnterOther ==
  /\ phase = "running" /\ todo # <<>> /\ node[Entered].type \notin Handled
  /\ Proceed({})
  /\ UNCHANGED environment

Finish ==
  /\ phase = "running" /\ todo = <<>>
  /\ phase' = "done"
  /\ UNCHANGED <<node, environment, todo, reports>>

Next ==
  EnterProgram \/ EnterType \/ EnterIndexSignature \/ EnterAlias \/ EnterFunctionOrFlow \/ EnterOther
    \/ Finish

Spec == Init /\ [][Next]_vars

-----------------------------------------------------------------------------
(* What the rules promise, against TypeMeaning.                              *)

Means(rule, p) ==
  CASE rule = "no-unsafe-dictionary-type" ->
         IF node[p].type = "TSIndexSignature" THEN Unsafe(Closed(Field(p, "typeAnnotation")))
         ELSE UnsafeDictionary(Closed(p))
    [] rule = "no-unknown-type-aliases" -> Holds(Closed(Field(p, "typeAnnotation")), "TSUnknownKeyword", FALSE)
    [] rule = "no-unknown-parameters" -> Holds(Closed(p), "TSUnknownKeyword", FALSE)
    [] rule = "no-object-parameters" -> Holds(Closed(p), "TSObjectKeyword", FALSE)
    [] rule = "no-unknown-returns" -> Holds(Closed(p), "TSUnknownKeyword", TRUE)
    [] rule = "no-known-value-widening" ->
         \E q \in DOMAIN node :
           \/ \E flow \in Flows(q) : flow[1] = p /\ Loses(p, flow[2])
           \/ node[q].type = "CallExpression" /\ p \in PredicateArguments(q) /\ IsAsked(p)

Reported(rule, positions) == \E p \in positions : <<rule, p>> \in reports
Of(types) == {p \in DOMAIN node : node[p].type \in types}

\* A rule reports only what the program means: through aliases, their arguments
\* and defaults, shadowed names and circular declarations, what is reported is
\* an unsafe dictionary, an alias, parameter or result of type unknown, an
\* object parameter, or a value written in the program that a type tells less of
\* ("explicitly widened and loses evidence", no-known-value-widening.ts); and of
\* dictionaries in one another only the outermost.
ReportsMeant ==
  phase = "done" /\ Hygienic =>
    /\ \A r \in reports : Means(r[1], r[2])
    /\ \A p, q \in Of(DictionaryKinds) :
         IsStrictPrefix(p, q) => ~(Reported("no-unsafe-dictionary-type", {p})
                                   /\ Reported("no-unsafe-dictionary-type", {q}))

Opaque(p) == node[p].type \in {"TSParenthesizedType", "TSTypeOperator"}

\* What a rule may have to report.
Subjects ==
  {<<"no-unsafe-dictionary-type", p>> :
     p \in {q \in Of(DictionaryKinds) : ~IsInsideTypeParameterConstraint(q)}
           \cup {q \in Of({"TSIndexSignature"}) : node[Front(q)].type # "TSTypeLiteral"}}
  \cup {<<"no-unknown-type-aliases", p>> : p \in Of({"TSTypeAliasDeclaration"})}
  \cup UNION {{<<"no-unknown-returns", p>> : p \in ToSet(FieldList(f, "returnType"))} : f \in Of(FunctionKinds)}
  \cup UNION {{<<"no-object-parameters", FunctionParameterTypeAnnotation(p)>> :
                 p \in AnnotatedParameters(f)} : f \in Of(FunctionKinds)}
  \cup UNION {{<<"no-unknown-parameters", FunctionParameterTypeAnnotation(p)>> :
                 p \in {q \in AnnotatedParameters(f) : ~MayBeUnknown(f, q)}} : f \in Of(FunctionKinds)}
  \cup UNION {{<<"no-known-value-widening", flow[1]>> : flow \in Flows(p)} : p \in Of(FlowKinds)}
  \cup UNION {{<<"no-known-value-widening", e>> : e \in PredicateArguments(p)} : p \in Of({"CallExpression"})}

AliasesIn(type) == {Binder(r) : r \in References(type)} \ {NULL}
IsGeneric(a) == TypeParameters(a) # <<>>

\* The dictionary around one that is in it, or the declaration of the alias
\* that a plain use leaves it to.  Not reported in the code at all: what is in
\* parentheses or after readonly, and an alias used with its defaults.
LeftToOther(p) ==
  \/ \E a \in Ancestors(p) : Opaque(a) \/ Reported("no-unsafe-dictionary-type", {a})
  \/ /\ ~IsInsideTypeAliasDeclaration(p) /\ IsReference(p) /\ Arguments(p) = <<>>
     /\ \E a \in {Binder(p)} \ {NULL} :
          IsGeneric(a) \/ Opaque(Field(a, "typeAnnotation"))
            \/ Reported("no-unsafe-dictionary-type", {q \in DOMAIN node : IsPrefix(a, q)})

\* Nothing escapes: an unsafe dictionary is reported where it is written, with
\* a dictionary around it or at the declaration of the alias that is used for
\* it; so are unknown aliases, parameters and results, object parameters, and
\* known values that are widened, through constants, assertions and aliases.
\* An unknown parameter may be left to the aliases it names, and is not
\* reported when one of them is generic.
NothingEscapes ==
  phase = "done" /\ Hygienic =>
    \A s \in Subjects : Means(s[1], s[2]) =>
      \/ s \in reports
      \/ s[1] = "no-unsafe-dictionary-type" /\ LeftToOther(s[2])
      \/ /\ s[1] = "no-unknown-parameters"
         /\ \E a \in AliasesIn(s[2]) : IsGeneric(a) \/ Reported("no-unknown-type-aliases", {a})

\* No chain of aliases, arguments and wrappers, circular or not, is followed for
\* ever: the rules come to the end of every program whose names are hygienic.
NeverOverflows == phase = "crashed" => ~Hygienic
=============================================================================
