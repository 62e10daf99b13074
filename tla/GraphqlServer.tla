--------------------------- MODULE GraphqlServer ---------------------------
(***************************************************************************)
(* GraphqlServer: fragments of a schema and maps of resolvers, collected by*)
(* addSchema, over the life cycle of ServerLifecycle.  The schema is built *)
(* by the first start and kept; the root value is built anew for every     *)
(* request, from all maps registered by then, by the name of the field     *)
(* alone.  A query asks for one field.                                     *)
(***************************************************************************)
EXTENDS ServerLifecycle, SequencesExt

CONSTANTS
  Fragments,     \* the arguments addSchema may be called with
  Fields,        \* Fields[f]: the fields f declares and has resolvers for, a
                 \* sequence of records [type, name]
  SchemaSource,  \* the fragment given to the constructor, or NoSchema
  NoSchema,      \* the value undefined of the field schema
  NoResolver,    \* no resolver is called
  Queries,       \* what may be asked for: a field, or nothing when the body
                 \* has no property query
  NullBody       \* the body null

VARIABLES
  schemaFragments,  \* the fragments, in the order of addSchema
  resolverMaps,     \* the fragments whose resolvers are registered
  schema,           \* the fields of the schema, once it is built
  asked,            \* asked[q]: what request q asks for
  resolver,         \* resolver[q]: the resolver that was called for it
  maps              \* maps[q]: history, the number of maps at that time

graphqlVars == <<schemaFragments, resolverMaps, schema, asked, resolver, maps>>

GraphqlAnswers == {"data", "errors", "refused", "500"}
Declared(f) == ToSet(Fields[f])
AllFields == UNION {Declared(f) : f \in Fragments}
Resolvers == [of : Fragments, field : AllFields]

ASSUME SchemaAssumption ==
  /\ \A f \in Fragments : Fields[f] \in Seq(Declared(f))
  /\ SchemaSource \in Fragments \cup {NoSchema}
  /\ NoSchema \notin Fragments /\ \A fields \in SUBSET AllFields : fields # NoSchema
  /\ NoResolver \notin Resolvers

SchemaTypeOK ==
  /\ schemaFragments \in BoundedSeq(Fragments, instance.registrations)
  /\ resolverMaps \in BoundedSeq(Fragments, instance.registrations + 1)
  /\ schema = NoSchema \/ schema \subseteq AllFields
  /\ asked \in [Requests -> Queries \cup {NullBody}]
  /\ resolver \in [Requests -> Resolvers \cup {NoResolver}]
  /\ maps \in [Requests -> 0..(instance.registrations + 1)]

Graphql == instance.kind = "graphql"

(* The constructor: a schema it is given is built at once.  Only the       *)
(* requests of the instance are told apart.                                *)
SchemaInit ==
  /\ schemaFragments = <<>>
  /\ resolverMaps = IF SchemaSource = NoSchema THEN <<>> ELSE <<SchemaSource>>
  /\ schema = IF SchemaSource = NoSchema THEN NoSchema ELSE Declared(SchemaSource)
  /\ asked \in {f \in [Requests -> Queries \cup {NullBody}] :
       \A q \in Requests : (Graphql /\ q \in instance.requests) \/ f[q] = NullBody}
  /\ resolver = [q \in Requests |-> NoResolver]
  /\ maps = [q \in Requests |-> 0]

-----------------------------------------------------------------------------

(* An addSchema that registers the resolvers twice: a mutant.              *)
AddSchemaTwice(f) ==
  /\ Graphql /\ Running /\ Len(schemaFragments) < instance.registrations
  /\ schemaFragments' = Append(schemaFragments, f)
  /\ resolverMaps' = resolverMaps \o <<f, f>>
  /\ UNCHANGED <<lifecycleVars, schema, asked, resolver, maps>>

AddSchema(f) ==
  /\ Graphql /\ Running /\ Len(schemaFragments) < instance.registrations
  /\ schemaFragments' = Append(schemaFragments, f)
  /\ resolverMaps' = Append(resolverMaps, f)
  /\ UNCHANGED <<lifecycleVars, schema, asked, resolver, maps>>

(* buildSchema refuses a field that is declared twice.                     *)
Buildable(fragments) ==
  /\ \A i \in DOMAIN fragments : IsInjective(Fields[fragments[i]])
  /\ \A i, j \in DOMAIN fragments :
       i # j => Declared(fragments[i]) \cap Declared(fragments[j]) = {}
BuildSchema(fragments) == UNION {Declared(f) : f \in ToSet(fragments)}

(* A start that builds the schema every time: a mutant.                    *)
StartServerRebuilding(k) ==
  /\ Graphql /\ Start(k)
  /\ Buildable(schemaFragments)
  /\ schema' = BuildSchema(schemaFragments)
  /\ UNCHANGED <<schemaFragments, resolverMaps, asked, resolver, maps>>

(* start: builds the schema unless there is one.  When that fails it throws*)
(* before it has changed anything.                                         *)
StartServer(k) ==
  /\ Graphql /\ Start(k)
  /\ IF schema # NoSchema THEN UNCHANGED schema
     ELSE Buildable(schemaFragments) /\ schema' = BuildSchema(schemaFragments)
  /\ UNCHANGED <<schemaFragments, resolverMaps, asked, resolver, maps>>

(* handleRequest: every request, whatever its method and url, is a query.  *)
GraphqlHandleRequest(q, k) ==
  /\ Graphql /\ Accept(q, k)
  /\ Read(q)
  /\ UNCHANGED <<instance, serverVars, left, fatal, graphqlVars>>

(* A loop whose closures share the variable: every field calls the resolver*)
(* of the last one.  A mutant.                                             *)
BuildRootValueSharing ==
  LET names == {field.name : field \in UNION {Declared(f) : f \in ToSet(resolverMaps)}}
      last == Last(resolverMaps)
  IN [name \in names |-> [of |-> last, field |-> Last(Fields[last])]]

(* buildRootValue: all fields of all maps by their name, later ones over   *)
(* earlier ones.                                                           *)
Assign(root, name, value) ==
  [x \in DOMAIN root \cup {name} |-> IF x = name THEN value ELSE root[x]]
AssignFields(root, f) ==
  LET after[j \in 0..Len(Fields[f])] ==
        IF j = 0 THEN root
        ELSE Assign(after[j-1], Fields[f][j].name, [of |-> f, field |-> Fields[f][j]])
  IN after[Len(Fields[f])]
BuildRootValue ==
  LET root[i \in 0..Len(resolverMaps)] ==
        IF i = 0 THEN <<>> ELSE AssignFields(root[i-1], resolverMaps[i])
  IN root[Len(resolverMaps)]

(* readBody resolves and graphql runs the query: the root value is that of *)
(* this moment; a field the schema does not have calls no resolver.        *)
Execute(q) ==
  /\ Graphql /\ BodyEnds(q)
  /\ resolver' = [resolver EXCEPT ![q] =
       IF asked[q] \in schema /\ asked[q].name \in DOMAIN BuildRootValue
       THEN BuildRootValue[asked[q].name] ELSE NoResolver]
  /\ maps' = [maps EXCEPT ![q] = Len(resolverMaps)]
  /\ UNCHANGED <<schemaFragments, resolverMaps, schema, asked>>

(* graphql resolves with data, or with the error of the resolver: 200.     *)
ResolverSettles(q) ==
  /\ Graphql /\ resolver[q] # NoResolver
  /\ \E result \in {"data", "errors"} : Answer(q, result)
  /\ UNCHANGED graphqlVars

(* The query is not valid, or undefined: graphql resolves with that, 200 as*)
(* well.                                                                   *)
Refuse(q) ==
  /\ Graphql /\ asked[q] # NullBody /\ resolver[q] = NoResolver
  /\ Answer(q, "refused")
  /\ UNCHANGED graphqlVars

(* To read the query of null throws: the catch answers 500.                *)
Reject(q) ==
  /\ Graphql /\ asked[q] = NullBody
  /\ Answer(q, "500")
  /\ UNCHANGED graphqlVars

QuerySettles(q) == ResolverSettles(q) \/ Refuse(q) \/ Reject(q)

(* The steps of a process whose server is a GraphqlServer.  The others of  *)
(* the life cycle leave the schema alone.                                  *)
GraphqlNext ==
  \/ \E f \in Fragments : AddSchema(f)
  \/ \E k \in Starts : StartServer(k) \/ \E q \in Requests : GraphqlHandleRequest(q, k)
  \/ \E q \in Requests : Execute(q) \/ QuerySettles(q)
  \/ Graphql /\ Lifecycle /\ UNCHANGED graphqlVars

-----------------------------------------------------------------------------

(* A query is refused if and only if the schema does not have its field:   *)
(* the schema of the first start, also after a restart, and with whatever  *)
(* fragments are added in between (GraphqlServer.ts:47-50).                *)
RefusedIffUnknown ==
  \A q \in Requests : answer[q] \in {"refused", "data", "errors"} =>
    (answer[q] = "refused" <=> asked[q] \notin schema)

(* A field of the schema is resolved by the last map, of those registered  *)
(* when its body ended, that has a field of its name, be it of another     *)
(* type: by the map of the fragment that declares it when no other has the *)
(* name (GraphqlServer.ts:103-119).                                        *)
SameName(q) ==
  {own \in [map : 1..maps[q], field : AllFields] :
     own.field \in Declared(resolverMaps[own.map]) /\ own.field.name = asked[q].name}
LastOfNameResolves ==
  \A q \in Requests : answer[q] \in {"data", "errors"} =>
    /\ \E own \in SameName(q) : own.field = asked[q]
    /\ \E last \in SameName(q) :
         /\ resolver[q] = [of |-> resolverMaps[last.map], field |-> last.field]
         /\ \A other \in SameName(q) : other.map <= last.map
=============================================================================
