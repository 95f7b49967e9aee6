-------------------------- MODULE KnownValueWidening --------------------------
(***************************************************************************)
(* no-known-value-widening.ts with what it takes from dictionary-types.ts  *)
(* and function-parameters.ts: which types are broad targets, whether an   *)
(* expression is known to be a value written in the program, and which     *)
(* expressions flow into which types.  What the rule reports is told from  *)
(* the node a handler is called for.                                       *)
(***************************************************************************)
EXTENDS DictionaryTypes

-----------------------------------------------------------------------------
(* Functions and their parameters.                                          *)

FunctionKinds ==
  {"ArrowFunctionExpression", "FunctionDeclaration", "FunctionExpression",
   "TSCallSignatureDeclaration", "TSConstructSignatureDeclaration", "TSConstructorType",
   "TSDeclareFunction", "TSEmptyBodyFunctionExpression", "TSFunctionType", "TSMethodSignature"}

Wrapped == [TSParameterProperty |-> "parameter", RestElement |-> "argument", AssignmentPattern |-> "left"]

RECURSIVE FunctionParameterTypeAnnotation(_)
FunctionParameterTypeAnnotation(parameter) ==
  LET own == Field(parameter, "typeAnnotation")
      type == node[parameter].type
  IN  IF own = NULL /\ type \in DOMAIN Wrapped
      THEN FunctionParameterTypeAnnotation(Field(parameter, Wrapped[type])) ELSE own

RECURSIVE FunctionParameterBindingName(_)
FunctionParameterBindingName(parameter) ==
  LET type == node[parameter].type
  IN  IF type \in DOMAIN Wrapped
      THEN FunctionParameterBindingName(Field(parameter, Wrapped[type])) ELSE node[parameter].name

RECURSIVE ContainsUnknownType(_)
ContainsUnknownType(type) ==
  \/ node[type].type = "TSUnknownKeyword"
  \/ /\ node[type].type \in {"TSParenthesizedType", "TSUnionType"}
     /\ \E child \in ToSet(Children(type)) : ContainsUnknownType(child)

-----------------------------------------------------------------------------
(* classifyWideningTarget.  Calls are kept as in DictionaryTypes.            *)

OpenDictionary == "open dictionary"
KeywordTarget == [TSUnknownKeyword |-> "unknown", TSObjectKeyword |-> "object"]
BroadKeywords == {"TSStringKeyword", "TSNumberKeyword", "TSSymbolKeyword"}

FirstFound(results) ==
  LET found == SelectSeq(results, LAMBDA r : r # NULL) IN IF found = <<>> THEN NULL ELSE Head(found)
HasIndexSignature(literal) == \E m \in ToSet(Children(literal)) : node[m].type = "TSIndexSignature"

RECURSIVE BroadMappedKey(_, _)
\* isBroadMappedKey, its TRUE the target that a broad key makes.
BroadKeyReference(t, substitutions, visited, calls) ==
  LET name == node[t].name
      alias == VisibleTypeAlias(name, t)
  IN  IF name \in DOMAIN substitutions /\ ~IsUnappliedReferenceTo(substitutions[name], name)
      THEN BroadMappedKey(<<substitutions[name], substitutions, visited>>, calls)
      ELSE IF name = "PropertyKey" /\ IsBuiltIn(name, t) THEN OpenDictionary
      ELSE IF alias = NULL \/ name \in visited THEN NULL
      ELSE IF TypeParameters(alias) # <<>> THEN NULL
      ELSE BroadMappedKey(<<Field(alias, "typeAnnotation"), substitutions, visited \cup {name}>>, calls)

BroadMappedKey(call, calls) ==
  LET t == UnwrapTransparentType(call[1])
      next == calls \cup {call}
      members == [i \in 1..node[t].kids |-> BroadMappedKey(<<Append(t, i), call[2], call[3]>>, next)]
  IN  IF call \in calls THEN OVERFLOW
      ELSE CASE node[t].type \in BroadKeywords -> OpenDictionary
             [] node[t].type = "TSUnionType" -> FirstFound(members)
             [] IsReference(t) -> BroadKeyReference(t, call[2], call[3], next)
             [] OTHER -> NULL

MappedKey(key, substitutions) == BroadMappedKey(<<key, substitutions, {}>>, {})
RecordTarget(t, substitutions) ==
  IF Arguments(t) = <<>> THEN OpenDictionary ELSE MappedKey(Arguments(t)[1], substitutions)

RECURSIVE AliasBroadTarget(_, _)
\* classifyAliasBroadTarget.
AliasBroadReference(t, substitutions, resolving, calls) ==
  LET name == node[t].name
      Of(call) == IF call = NULL THEN NULL ELSE AliasBroadTarget(call, calls)
  IN  IF name \in DOMAIN substitutions THEN Of(Substituted(t, substitutions, resolving))
      ELSE IF name \in TransparentWrappers /\ IsBuiltIn(name, t)
      THEN Of(WrappedArgument(t, substitutions, resolving))
      ELSE IF name = "Record" /\ IsBuiltIn(name, t) THEN RecordTarget(t, substitutions)
      ELSE Of(Expanded(t, substitutions, resolving))

AliasBroadTarget(call, calls) ==
  LET t == UnwrapTransparentType(call[1])
      type == node[t].type
  IN  IF call \in calls THEN OVERFLOW
      ELSE CASE type \in DOMAIN KeywordTarget -> KeywordTarget[type]
             [] type = "TSTypeLiteral" -> IF HasIndexSignature(t) THEN OpenDictionary ELSE NULL
             [] type = "TSMappedType" -> MappedKey(Field(t, "constraint"), call[2])
             [] IsReference(t) -> AliasBroadReference(t, call[2], call[3], calls \cup {call})
             [] OTHER -> NULL

AliasTarget(t) ==
  LET next == Expanded(t, Nothing, {})
      target == AliasBroadTarget(next, {})
  IN  IF next = NULL THEN NULL
      ELSE IF TypeParameters(VisibleTypeAlias(node[t].name, t)) = <<>> \/ target = OVERFLOW THEN target
      ELSE IF target = OpenDictionary THEN "generic container" ELSE NULL

LiteralTarget(t) ==
  IF HasIndexSignature(t) THEN OpenDictionary
  ELSE IF Children(t) # <<>> THEN "anonymous object" ELSE NULL

RECURSIVE ClassifyWideningTarget(_)
ClassifyWideningTarget(type) ==
  LET t == UnwrapTransparentType(type)
      kind == node[t].type
      name == node[t].name
  IN  CASE kind \in DOMAIN KeywordTarget -> KeywordTarget[kind]
        [] kind = "TSTypeLiteral" -> LiteralTarget(t)
        [] kind = "TSMappedType" -> OpenDictionary
        [] kind = "TSTypeReference" ->
             IF name \in TransparentWrappers /\ IsBuiltIn(name, t)
             THEN IF Arguments(t) = <<>> THEN NULL ELSE ClassifyWideningTarget(Arguments(t)[1])
             ELSE IF name = "Record" /\ IsBuiltIn(name, t) THEN RecordTarget(t, Nothing)
             ELSE AliasTarget(t)
        [] OTHER -> NULL

-----------------------------------------------------------------------------
(* Variables and the values they are known to hold.                          *)

Assertions == {"TSAsExpression", "TSTypeAssertion"}
Wrappings == Assertions \cup {"ParenthesizedExpression", "TSSatisfiesExpression", "TSNonNullExpression"}

RECURSIVE UnwrapExpression(_)
UnwrapExpression(e) == IF node[e].type \in Wrappings THEN UnwrapExpression(Field(e, "expression")) ELSE e

KnownEvidence ==
  {"ObjectExpression", "ArrayExpression", "ArrowFunctionExpression", "ClassExpression",
   "FunctionExpression", "NewExpression", "Literal", "TemplateLiteral", "UnaryExpression"}
IsKnownEvidenceExpression(e) == node[UnwrapExpression(e)].type \in KnownEvidence

\* What declares a value, its name and its scope.
ValueScopes == TypeScopes \cup FunctionKinds
DefinesValue(d) ==
  \/ node[d].type \in {"VariableDeclarator", "FunctionDeclaration", "TSDeclareFunction", "ClassDeclaration"}
  \/ node[d].field = "params"
DefinedName(d) ==
  IF node[d].field = "params" THEN FunctionParameterBindingName(d)
  ELSE IF node[d].type = "VariableDeclarator" THEN node[Field(d, "id")].name ELSE node[d].name
ScopesAround(p) == {a \in Ancestors(p) : node[a].type \in ValueScopes}
IsIdentifier(e) == node[e].type = "Identifier"

\* A variable is the set of its definitions, empty where the name has none.
ResolveVariable(e) ==
  LET Innermost(d) == CHOOSE s \in ScopesAround(d) : \A x \in ScopesAround(d) : Len(x) <= Len(s)
      Defs(s) == {d \in DOMAIN node : DefinesValue(d) /\ DefinedName(d) = node[e].name /\ Innermost(d) = s}
      found == {s \in ScopesAround(e) : Defs(s) # {}}
  IN  IF found = {} THEN {}
      ELSE Defs(CHOOSE s \in found : \A x \in found : Len(x) <= Len(s))

\* The declarator of a variable, in a set of one, or {}.
VariableDeclarator(variable) ==
  {d \in variable : Cardinality(variable) = 1 /\ node[d].type = "VariableDeclarator"}

IsWritten(variable) ==
  \E a \in DOMAIN node :
    /\ node[a].type = "AssignmentExpression" /\ IsIdentifier(Field(a, "left"))
    /\ ResolveVariable(Field(a, "left")) = variable
IsStableConstVariable_AnyKind(variable, declarator) == ~IsWritten(variable)
IsStableConstVariable(variable, declarator) ==
  node[Front(declarator)].name = "const" /\ ~IsWritten(variable)

StableInits(variable) ==
  {Field(d, "init") : d \in {x \in VariableDeclarator(variable) : IsStableConstVariable(variable, x)}} \ {NULL}

RECURSIVE HasKnownEvidence(_, _)
HasKnownEvidence(e, visited) ==
  LET unwrapped == UnwrapExpression(e)
      variable == ResolveVariable(unwrapped)
  IN  \/ IsKnownEvidenceExpression(e)
      \/ /\ IsIdentifier(unwrapped) /\ variable \notin visited
         /\ \E init \in StableInits(variable) : HasKnownEvidence(init, visited \cup {variable})

\* The function that a callee names, in a set of one, or {}.
CallableKinds ==
  {"ArrowFunctionExpression", "FunctionDeclaration", "FunctionExpression", "TSDeclareFunction",
   "TSEmptyBodyFunctionExpression"}
IsFunctionExpression(f) == node[f].type \in CallableKinds
LocalFunctionForCall(callee) ==
  LET unwrapped == UnwrapExpression(callee)
      variable == ResolveVariable(unwrapped)
      inits == {Field(d, "init") : d \in VariableDeclarator(variable)} \ {NULL}
      functions == {d \in variable : Cardinality(variable) = 1 /\ node[d].field # "params"}
  IN  {f \in IF IsFunctionExpression(unwrapped) THEN {unwrapped}
             ELSE IF IsIdentifier(unwrapped) THEN functions \cup {UnwrapExpression(i) : i \in inits}
             ELSE {} : IsFunctionExpression(f)}

VariableTypeAnnotation(variable) ==
  LET of == {IF node[d].field # "params" THEN Field(Field(d, "id"), "typeAnnotation")
             ELSE FunctionParameterTypeAnnotation(d) :
               d \in {x \in variable : node[x].field = "params" \/ node[x].type = "VariableDeclarator"}}
  IN  IF Cardinality(variable) = 1 THEN of \ {NULL} ELSE {}

\* hasKnownCallArgumentEvidence: the nodes that decide it, types that must be
\* informative or an expression that is evidence itself.
RECURSIVE CallArgumentEvidence(_, _)
CallArgumentEvidence(e, visited) ==
  LET variable == ResolveVariable(e)
      inner == Field(e, "expression")
  IN  CASE node[e].type \in Assertions -> {Field(e, "typeAnnotation")}
        [] node[e].type \in Wrappings \ Assertions -> CallArgumentEvidence(inner, visited)
        [] node[e].type = "CallExpression" ->
             {Field(f, "returnType") : f \in LocalFunctionForCall(Field(e, "callee"))} \ {NULL}
        [] node[e].type = "Identifier" ->
             IF variable \in visited THEN {}
             ELSE IF VariableTypeAnnotation(variable) # {} THEN VariableTypeAnnotation(variable)
             ELSE UNION {CallArgumentEvidence(i, visited \cup {variable}) : i \in StableInits(variable)}
        [] OTHER -> {x \in {e} : IsKnownEvidenceExpression(e)}

-----------------------------------------------------------------------------
(* The flows.  A flow is an expression with the type it flows into.          *)

EnclosingFunction(p) ==
  LET around == {a \in Ancestors(p) :
                   node[a].type \in {"ArrowFunctionExpression", "FunctionDeclaration", "FunctionExpression"}}
  IN  {a \in around : \A x \in around : Len(x) <= Len(a)}

HasParentAssertion(p) == node[Front(p)].type \in Assertions

FlowKinds ==
  Assertions \cup {"VariableDeclarator", "PropertyDefinition", "AccessorProperty", "AssignmentExpression",
                   "ReturnStatement", "ArrowFunctionExpression"}

\* The flows of a node: at most one.
Flows(p) ==
  LET type == node[p].type
      To(e, owner) == {<<e, t>> : t \in {Field(owner, "typeAnnotation")} \ {NULL}}
      Returned(e, f) == {<<e, t>> : t \in {Field(f, "returnType")} \ {NULL}}
      Assigned(d) == To(Field(p, "right"), Field(d, "id"))
      declarators == VariableDeclarator(ResolveVariable(Field(p, "left")))
      flows ==
        CASE type = "VariableDeclarator" /\ IsIdentifier(Field(p, "id")) ->
               To(Field(p, "init"), Field(p, "id"))
          [] type \in {"PropertyDefinition", "AccessorProperty"} -> To(Field(p, "value"), p)
          [] type = "AssignmentExpression" /\ node[p].name = "=" /\ IsIdentifier(Field(p, "left")) ->
               UNION {Assigned(d) : d \in declarators}
          [] type = "ReturnStatement" ->
               UNION {Returned(Field(p, "argument"), f) : f \in EnclosingFunction(p)}
          [] type = "ArrowFunctionExpression" /\ node[Field(p, "body")].type # "BlockStatement" ->
               Returned(Field(p, "body"), p)
          [] type \in Assertions /\ ~HasParentAssertion(p) -> To(Field(p, "expression"), p)
          [] OTHER -> {}
  IN  {flow \in flows : flow[1] # NULL}

IsEmptyObjectExpression(e) ==
  LET unwrapped == UnwrapExpression(e)
  IN  node[unwrapped].type = "ObjectExpression" /\ Children(unwrapped) = <<>>
IsDictionaryAccumulatorTarget(target) == target \in {OpenDictionary, "generic container"}

ReportFlow(flow, target) ==
  /\ target # NULL
  /\ ~(IsDictionaryAccumulatorTarget(target) /\ IsEmptyObjectExpression(flow[1]))
  /\ HasKnownEvidence(flow[1], {})

\* The arguments of a call of a local type predicate that stand for its
\* subject, when that is a parameter of type unknown: at most one.
PredicateArguments(p) ==
  LET Subject(f, i) == FunctionParameterBindingName(FieldList(f, "params")[i])
      Asks(f, i) ==
        LET predicate == Field(f, "returnType")
            annotation == FunctionParameterTypeAnnotation(FieldList(f, "params")[i])
        IN  /\ predicate # NULL
            /\ node[predicate].type = "TSTypePredicate" /\ node[predicate].name = Subject(f, i)
            /\ \A k \in 1..(i - 1) : Subject(f, k) # Subject(f, i)
            /\ annotation # NULL /\ ContainsUnknownType(annotation)
      given == FieldList(p, "arguments")
  IN  {given[i] : i \in {k \in DOMAIN given :
         /\ node[given[k]].type # "SpreadElement"
         /\ \E f \in LocalFunctionForCall(Field(p, "callee")) :
              k <= Len(FieldList(f, "params")) /\ Asks(f, k)}}

\* What the rule makes of a node: the expressions it reports, or an overflow.
WideningReports(p) ==
  LET targets == [flow \in Flows(p) |-> ClassifyWideningTarget(flow[2])]
      arguments == IF node[p].type = "CallExpression" THEN PredicateArguments(p) ELSE {}
      Classified(e) == IF node[e].type \in KnownEvidence THEN NULL ELSE ClassifyUnsafeDictionaryValue(e)
      evidence == [a \in arguments |-> {Classified(e) : e \in CallArgumentEvidence(a, {})}]
  IN  IF \/ \E flow \in DOMAIN targets : targets[flow] = OVERFLOW
         \/ \E a \in arguments : OVERFLOW \in evidence[a]
      THEN OVERFLOW
      ELSE {flow[1] : flow \in {f \in DOMAIN targets : ReportFlow(f, targets[f])}}
           \cup {a \in arguments : NULL \in evidence[a]}
=============================================================================
