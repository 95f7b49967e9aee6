----------------------------- MODULE TypeAliases -----------------------------
(***************************************************************************)
(* The names of types as the anti-slop rules of oxlint resolve them        *)
(* (shared/type-alias-resolution.ts, shared/lexical-type-parameters.ts):   *)
(* which alias a reference names, what its type parameters stand for, and  *)
(* whether a type holds a keyword once its aliases are resolved.           *)
(*                                                                         *)
(* A program is a syntax tree.  A node is named by its position, the path  *)
(* of child numbers from the root, so that parent and ancestors are its    *)
(* prefixes; node[p] has its type, its name, the field of its parent that  *)
(* holds it and the number of its children.  The TSTypeAnnotation and      *)
(* TSTypeParameterDeclaration wrappers of the real tree are left out, and  *)
(* so are qualified names, which no rule resolves.                         *)
(***************************************************************************)
EXTENDS Integers, SequencesExt

CONSTANT NULL

VARIABLES
  node,          \* the program
  environment    \* what createTypeEnvironment collected of it, or NULL

Children(p) == [i \in 1..node[p].kids |-> Append(p, i)]
FieldList(p, field) == SelectSeq(Children(p), LAMBDA c : node[c].field = field)
Field(p, field) ==
  LET found == FieldList(p, field) IN IF found = <<>> THEN NULL ELSE Head(found)
Ancestors(p) == {SubSeq(p, 1, k) : k \in 0..(Len(p) - 1)}

TypeParameters(p) == FieldList(p, "typeParameters")
Arguments(p) == FieldList(p, "typeArguments")
IsReference(p) == node[p].type = "TSTypeReference"

-----------------------------------------------------------------------------
(* Declarations and their scopes.                                           *)

TypeScopes == {"Program", "BlockStatement", "TSModuleBlock", "StaticBlock", "SwitchStatement"}
DeclaresType ==
  {"TSTypeAliasDeclaration", "TSInterfaceDeclaration", "TSEnumDeclaration", "ClassDeclaration",
   "ClassExpression", "ImportSpecifier", "ImportDefaultSpecifier", "ImportNamespaceSpecifier"}

EnclosingTypeScope(p) ==
  CHOOSE s \in Ancestors(p) :
    /\ node[s].type \in TypeScopes
    /\ \A a \in Ancestors(p) : node[a].type \in TypeScopes => Len(a) <= Len(s)

TypeBindings ==
  {[name |-> node[p].name, declaration |-> p, scope |-> EnclosingTypeScope(p)] :
     p \in {q \in DOMAIN node : node[q].type \in DeclaresType}}

IsAlias(p) == node[p].type = "TSTypeAliasDeclaration"

CollectInferTypeParameterNames(from) ==
  {node[p].name : p \in {q \in DOMAIN node : IsPrefix(from, q) /\ node[q].type = "TSInferType"}}

\* The type parameters, mapped keys and inferred types that a node brings into
\* scope for one of its children.
NamesBoundFor(child) ==
  LET parent == Front(child)
      field == node[child].field
  IN  CASE node[parent].type = "TSMappedType" ->
             IF field \in {"nameType", "typeAnnotation"} THEN {node[parent].name} ELSE {}
        [] node[parent].type = "TSConditionalType" ->
             IF field = "trueType" THEN CollectInferTypeParameterNames(Field(parent, "extendsType"))
             ELSE {}
        [] OTHER -> {node[c].name : c \in ToSet(TypeParameters(parent))}

LexicalTypeParameterNames(use) ==
  UNION {NamesBoundFor(SubSeq(use, 1, k)) : k \in 1..Len(use)}

\* The candidates whose scope is the closest one around the use.
NearestTypeBindings(name, use) ==
  LET candidates == {b \in environment.bindings : b.name = name /\ IsPrefix(b.scope, use)}
  IN  {b \in candidates : \A c \in candidates : Len(c.scope) <= Len(b.scope)}

VisibleTypeAlias(name, use) ==
  LET nearest == NearestTypeBindings(name, use)
      found == {b.declaration : b \in nearest}
  IN  IF /\ name \notin LexicalTypeParameterNames(use)
         /\ Cardinality(found) = 1 /\ \A d \in found : IsAlias(d)
      THEN CHOOSE d \in found : TRUE
      ELSE NULL

HasVisibleTypeBinding(name, use) ==
  name \in LexicalTypeParameterNames(use) \/ NearestTypeBindings(name, use) # {}

-----------------------------------------------------------------------------
(* Substitutions.  Those of resolvedTypeMatches keep with an argument the   *)
(* substitutions it is read under.                                          *)

Nothing == [name \in {} |-> NULL]

Argument(parameter, reference, i) ==
  IF i <= Len(Arguments(reference)) THEN Arguments(reference)[i] ELSE Field(parameter, "default")

AliasSubstitutions(alias, reference, base) ==
  LET Bind(next, i) ==
        LET parameter == TypeParameters(alias)[i]
            argument == Argument(parameter, reference, i)
            under == IF i <= Len(Arguments(reference)) THEN base ELSE next
        IN  IF next = NULL \/ argument = NULL THEN NULL
            ELSE (node[parameter].name :> [type |-> argument, substitutions |-> under]) @@ next
  IN  FoldLeft(Bind, base, [i \in 1..Len(TypeParameters(alias)) |-> i])

\* What the matchers of the rules look into, besides unions and parentheses.
Promises == {"Promise", "PromiseLike"}
MatchedChildren(type, throughPromise) ==
  CASE node[type].type \in {"TSUnionType", "TSParenthesizedType"} -> ToSet(Children(type))
    [] throughPromise /\ IsReference(type) /\ node[type].name \in Promises
         /\ Arguments(type) # <<>> -> {Arguments(type)[1]}
    [] OTHER -> {}

RECURSIVE Evaluate(_, _, _, _, _)
Evaluate(type, substitutions, resolving, keyword, throughPromise) ==
  LET name == node[type].name
      alias == VisibleTypeAlias(name, type)
      next == AliasSubstitutions(alias, type, substitutions)
      Applied(to) == Evaluate(to.type, to.substitutions, resolving, keyword, throughPromise)
  IN  IF IsReference(type) /\ name \in DOMAIN substitutions /\ Arguments(type) = <<>>
      THEN Applied(substitutions[name])
      ELSE IF IsReference(type) /\ alias \notin resolving \cup {NULL} /\ next # NULL
      THEN Evaluate(Field(alias, "typeAnnotation"), next, resolving \cup {alias}, keyword, throughPromise)
      ELSE \/ node[type].type = keyword
           \/ \E child \in MatchedChildren(type, throughPromise) :
                Evaluate(child, substitutions, resolving, keyword, throughPromise)

ResolvedTypeMatches(type, keyword, throughPromise) ==
  Evaluate(type, Nothing, {}, keyword, throughPromise)
=============================================================================
