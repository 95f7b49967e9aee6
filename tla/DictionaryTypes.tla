--------------------------- MODULE DictionaryTypes ---------------------------
(***************************************************************************)
(* Which types are dictionaries with an unsafe value                       *)
(* (shared/dictionary-types.ts).  Here substitutions are types only and,   *)
(* like the set of aliases under resolution, kept by name.                 *)
(*                                                                         *)
(* A call with the arguments of a call it was made from never returns: the *)
(* functions are pure, and the stack of the real program overflows.  Calls *)
(* carry the arguments of the calls they are made from to tell.            *)
(***************************************************************************)
EXTENDS TypeAliases

CONSTANT OVERFLOW

BuiltIns ==
  {"Record", "Readonly", "Partial", "Required", "Pick", "Omit", "PropertyKey", "NonNullable"}
TransparentWrappers == {"Readonly", "Partial", "Required", "NonNullable"}

\* Interfaces at the top level of the program, exported or not.
DeclaredStatement(p) ==
  LET statement == node[p].type
  IN  IF statement \in {"ExportNamedDeclaration", "ExportDefaultDeclaration"}
      THEN Field(p, "declaration") ELSE p
TopLevelInterfaces ==
  {p \in {DeclaredStatement(c) : c \in ToSet(Children(<<>>))} \ {NULL} :
     node[p].type = "TSInterfaceDeclaration"}

CreateTypeEnvironment == [bindings |-> TypeBindings, interfaces |-> TopLevelInterfaces]

IsBuiltIn(name, use) == name \in BuiltIns /\ ~HasVisibleTypeBinding(name, use)

RECURSIVE UnwrapTransparentType(_)
UnwrapTransparentType(type) ==
  IF \/ node[type].type = "TSParenthesizedType"
     \/ node[type].type = "TSTypeOperator" /\ node[type].name = "readonly"
  THEN UnwrapTransparentType(Field(type, "typeAnnotation"))
  ELSE type

IsUnappliedReferenceTo(type, name) ==
  LET t == UnwrapTransparentType(type)
  IN  IsReference(t) /\ node[t].name = name /\ Arguments(t) = <<>>

\* An optional property of type never, and an object of nothing else.
IsEffectivelyEmptyMember(member) ==
  LET annotation == Field(member, "typeAnnotation")
  IN  /\ node[member].type = "TSPropertySignature" /\ node[member].name = "optional"
      /\ annotation # NULL
      /\ node[UnwrapTransparentType(annotation)].type = "TSNeverKeyword"
HasEffectivelyEmptyMembers(p) == \A m \in ToSet(FieldList(p, "members")) : IsEffectivelyEmptyMember(m)

IsEffectivelyEmptyInterface(declarations) ==
  /\ Cardinality(declarations) = 1
  /\ \A d \in declarations : FieldList(d, "extends") = <<>> /\ HasEffectivelyEmptyMembers(d)

-----------------------------------------------------------------------------
(* Aliases and their arguments.                                             *)

RECURSIVE ResolvedSubstitutionArgument(_, _, _)
ResolvedSubstitutionArgument(type, base, resolving) ==
  LET t == UnwrapTransparentType(type)
      name == node[t].name
  IN  IF IsReference(t) /\ name \in DOMAIN base \ resolving
      THEN ResolvedSubstitutionArgument(base[name], base, resolving \cup {name})
      ELSE type

AliasSubstitution_NoDefaults(alias, reference, base) ==
  LET parameters == TypeParameters(alias)
      Bind(next, i) ==
        IF next = NULL \/ i > Len(Arguments(reference)) THEN NULL
        ELSE (node[parameters[i]].name :> Arguments(reference)[i]) @@ next
  IN  FoldLeft(Bind, base, [i \in 1..Len(parameters) |-> i])
AliasSubstitution(alias, reference, base) ==
  LET parameters == TypeParameters(alias)
      Bind(next, i) ==
        LET argument == Argument(parameters[i], reference, i)
        IN  IF next = NULL \/ argument = NULL THEN NULL
            ELSE (node[parameters[i]].name :> ResolvedSubstitutionArgument(argument, next, {})) @@ next
  IN  FoldLeft(Bind, base, [i \in 1..Len(parameters) |-> i])

\* The alias a reference is expanded to: an alias under resolution is not
\* expanded again.
ExpandedAlias_Again(reference, resolving) == VisibleTypeAlias(node[reference].name, reference)
ExpandedAlias(reference, resolving) ==
  IF node[reference].name \in resolving THEN NULL
  ELSE VisibleTypeAlias(node[reference].name, reference)

\* What a reference to a type parameter or to an alias is read as, and under
\* which substitutions and aliases under resolution; NULL when it is neither.
Substituted(reference, substitutions, resolving) ==
  LET type == substitutions[node[reference].name]
  IN  IF IsUnappliedReferenceTo(type, node[reference].name) THEN NULL
      ELSE <<type, substitutions, resolving>>
Expanded(reference, substitutions, resolving) ==
  LET alias == ExpandedAlias(reference, resolving)
      next == AliasSubstitution(alias, reference, substitutions)
  IN  IF alias = NULL \/ next = NULL THEN NULL
      ELSE <<Field(alias, "typeAnnotation"), next, resolving \cup {node[reference].name}>>

WrappedArgument(reference, substitutions, resolving) ==
  IF Arguments(reference) = <<>> THEN NULL
  ELSE <<Arguments(reference)[1], substitutions, resolving>>

Start(type) == <<type, Nothing, {}>>

-----------------------------------------------------------------------------
(* unsafeDirectValue and dictionaryValueTypes.  The call holds the three    *)
(* arguments that vary, type, substitutions and resolvingAliases; calls are *)
(* those it was made from.                                                  *)

UnsafeKeyword == [TSUnknownKeyword |-> "unknown", TSAnyKeyword |-> "any", TSObjectKeyword |-> "object"]

InterfacesNamed(name) == {d \in environment.interfaces : node[d].name = name}

RECURSIVE UnsafeDirectValue(_, _)

UnsafeUnion(values) ==
  LET unsafe == SelectSeq(values, LAMBDA v : v # NULL)
  IN  IF unsafe = <<>> THEN NULL
      ELSE IF Head(unsafe) = OVERFLOW THEN OVERFLOW ELSE "union"
UnsafeIntersection(values) ==
  IF OVERFLOW \in ToSet(values) THEN OVERFLOW
  ELSE IF "any" \in ToSet(values) THEN "any"
  ELSE IF NULL \in ToSet(values) THEN NULL ELSE values[1]

UnsafeReference(t, substitutions, resolving, calls) ==
  LET name == node[t].name
      Of(call) == IF call = NULL THEN NULL ELSE UnsafeDirectValue(call, calls)
  IN  IF name \in TransparentWrappers /\ IsBuiltIn(name, t)
      THEN Of(WrappedArgument(t, substitutions, resolving))
      ELSE IF name \in DOMAIN substitutions THEN Of(Substituted(t, substitutions, resolving))
      ELSE IF InterfacesNamed(name) # {}
      THEN IF IsEffectivelyEmptyInterface(InterfacesNamed(name)) THEN "empty-object" ELSE NULL
      ELSE Of(Expanded(t, substitutions, resolving))

UnsafeDirectValue(call, calls) ==
  LET t == UnwrapTransparentType(call[1])
      type == node[t].type
      members == [i \in 1..node[t].kids |->
                    UnsafeDirectValue(<<Append(t, i), call[2], call[3]>>, calls \cup {call})]
  IN  CASE call \in calls -> OVERFLOW
        [] call \notin calls /\ type \in DOMAIN UnsafeKeyword -> UnsafeKeyword[type]
        [] call \notin calls /\ type = "TSTypeLiteral" ->
             IF HasEffectivelyEmptyMembers(t) THEN "empty-object" ELSE NULL
        [] call \notin calls /\ type = "TSUnionType" -> UnsafeUnion(members)
        [] call \notin calls /\ type = "TSIntersectionType" -> UnsafeIntersection(members)
        [] call \notin calls /\ type = "TSTypeReference" ->
             UnsafeReference(t, call[2], call[3], calls \cup {call})
        [] OTHER -> NULL

RECURSIVE DictionaryValueTypes(_, _)

\* The values of a dictionary as calls of UnsafeDirectValue, or an overflow.
DictionaryReference(t, substitutions, resolving, calls) ==
  LET name == node[t].name
      Of(call) == IF call = NULL THEN <<>> ELSE DictionaryValueTypes(call, calls)
  IN  IF name \in DOMAIN substitutions THEN Of(Substituted(t, substitutions, resolving))
      ELSE IF name \in TransparentWrappers \cup {"Pick", "Omit"} /\ IsBuiltIn(name, t)
      THEN Of(WrappedArgument(t, substitutions, resolving))
      ELSE IF name = "Record" /\ IsBuiltIn(name, t)
      THEN IF Len(Arguments(t)) < 2 THEN <<>> ELSE <<<<Arguments(t)[2], substitutions, {}>>>>
      ELSE Of(Expanded(t, substitutions, resolving))

DictionaryValueTypes(call, calls) ==
  LET t == UnwrapTransparentType(call[1])
      type == node[t].type
      Values(owners) == LET types == SelectSeq([i \in 1..Len(owners) |-> Field(owners[i], "typeAnnotation")],
                                               LAMBDA v : v # NULL)
                        IN  [i \in 1..Len(types) |-> <<types[i], call[2], {}>>]
      IsIndexSignature(m) == node[m].type = "TSIndexSignature"
  IN  CASE call \in calls -> <<OVERFLOW>>
        [] call \notin calls /\ type = "TSTypeLiteral" -> Values(SelectSeq(Children(t), IsIndexSignature))
        [] call \notin calls /\ type = "TSMappedType" -> Values(<<t>>)
        [] call \notin calls /\ type = "TSTypeReference" ->
             DictionaryReference(t, call[2], call[3], calls \cup {call})
        [] OTHER -> <<>>

ClassifyUnsafeDictionaryValue(type) == UnsafeDirectValue(Start(type), {})

\* The first value that is unsafe, or the overflow.
ClassifyUnsafeDictionary(type) ==
  LET Classify(call) == IF call = OVERFLOW THEN OVERFLOW ELSE UnsafeDirectValue(call, {})
      values == DictionaryValueTypes(Start(type), {})
      unsafe == SelectSeq([i \in 1..Len(values) |-> Classify(values[i])], LAMBDA v : v # NULL)
  IN  IF unsafe = <<>> THEN NULL ELSE Head(unsafe)
=============================================================================
