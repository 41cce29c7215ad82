--------------------------- MODULE MCSchemaCache ----------------------------
\* TLC instance of SchemaCache: two databases of which one has a file of its
\* own, two tables, documents that differ in the type of a field and in having
\* another, one of them with a field named id.
EXTENDS SchemaCache

String == [type |-> "string", target |-> None]
Integer == [type |-> "integer", target |-> None]
Reference == [type |-> "reference", target |-> "u"]

Plain == "a" :> String
Other == ("a" :> Integer) @@ ("b" :> Reference)
Named == "id" :> String

MCDocuments == {Plain, Other, Named}
MCBodies == {Plain, Named}
MCKeys == Databases \X Tables
MCInitialStores ==
  {[k \in MCKeys |-> IF k[2] = "t" THEN {Plain, Other} ELSE {}]}
MCShared == {<<"d1", "t">>}

Silent == [required |-> None, type |-> None, hidden |-> None]
MCFile ==
  "t" :> [fields |-> ("a" :> [Silent EXCEPT !.required = TRUE]) @@ ("b" :> [Silent EXCEPT !.hidden = TRUE]),
          extra |-> "c" :> [Silent EXCEPT !.type = "number"]]

Dir(own, fallback) == [own |-> [d \in Databases |-> IF d = "d1" THEN own ELSE None],
                       fallback |-> fallback]
MCSetups ==
  {[database |-> "d1", dir |-> dir] :
     dir \in {None, NotADirectory, Dir(MCFile, Invalid), Dir(Invalid, MCFile)}}
MCBatches == {<<"t">>, <<"u", "t", "u">>}
=============================================================================
