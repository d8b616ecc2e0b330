--------------------------- MODULE SchemaDatabase ---------------------------
(***************************************************************************)
(* The SQLite database a migration permit is about, as the migration       *)
(* adapter meets it: a path that leads to a file, the file's schema and    *)
(* user_version, and everybody else who uses the same database.  External  *)
(* to the repository.                                                      *)
(***************************************************************************)
EXTENDS Integers, FiniteSets

CONSTANTS Instances,        \* database files: device and inode
          Unusable,         \* the path is a symlink, or nothing is there
          Shapes,           \* contents of sqlite_master
          MaxVersion,       \* bound: user_version
          Sources,          \* migration scripts
          Effect,           \* per script and shape: does it run, and what does it leave
          InitialShape,
          MaxWrites,        \* bound: schema changes by others
          MaxReplacements   \* bound: replacements of the file

Versions == 1..MaxVersion
Schemas == [shape : Shapes, version : Versions]

ASSUME DatabaseAssumption ==
    /\ Instances # {} /\ Unusable \notin Instances
    /\ MaxVersion \in Nat \ {0} /\ InitialShape \in Shapes
    /\ Effect \in [Sources -> [Shapes -> [ok : BOOLEAN, shape : Shapes]]]
    /\ MaxWrites \in Nat /\ MaxReplacements \in Nat

VARIABLES file,         \* the instance at the path
          schemas,      \* per instance, its schema
          writes,       \* schema changes by others so far
          replacements

dbVars == <<file, schemas, writes, replacements>>

DBTypeOK ==
    /\ file \in Instances \union {Unusable}
    /\ schemas \in [Instances -> Schemas]
    /\ writes \in 0..MaxWrites /\ replacements \in 0..MaxReplacements

\* A script that fails leaves the schema as it was, unless it commits by itself.
Atomic(source) ==
    \A shape \in Shapes : ~Effect[source][shape].ok => Effect[source][shape].shape = shape

\* The schema a script leaves: a failed one does not get to its last PRAGMA.
After(source, schema, target) ==
    LET effect == Effect[source][schema.shape]
    IN [shape |-> effect.shape,
        version |-> IF effect.ok THEN target ELSE schema.version]

DBInit ==
    /\ file \in Instances
    /\ schemas = [i \in Instances |-> [shape |-> InitialShape, version |-> 1]]
    /\ writes = 0 /\ replacements = 0

\* Another connection changes the schema, the version or both.
WriteSchema ==
    /\ file # Unusable /\ writes < MaxWrites
    /\ \E schema \in Schemas \ {schemas[file]} :
           schemas' = [schemas EXCEPT ![file] = schema]
    /\ writes' = writes + 1
    /\ UNCHANGED <<file, replacements>>

\* A backup is restored over the file, or the path becomes unusable for a while.
ReplaceFile ==
    /\ \E i \in (Instances \union {Unusable}) \ {file} : file' = i
    /\ \/ file = Unusable /\ UNCHANGED replacements
       \/ /\ file # Unusable /\ replacements < MaxReplacements
          /\ replacements' = replacements + 1
    /\ UNCHANGED <<schemas, writes>>

DBNext == WriteSchema \/ ReplaceFile
=============================================================================
