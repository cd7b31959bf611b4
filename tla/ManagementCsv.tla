--------------------------- MODULE ManagementCsv ---------------------------
(***************************************************************************)
(* The Management configuration files are read one after another, row by   *)
(* row: the services, the channel ACLs that refer to them, and the global  *)
(* permissions of services.  Rows come in any order and any number of      *)
(* times; what was read before decides what becomes of a row.              *)
(***************************************************************************)
EXTENDS Integers, FiniteSets, SequencesExt

CONSTANTS
  Service,     \* canonical Managed Service IDs
  NoService,   \* a text that is not one
  Permission,  \* the permissions of Version 1
  Other,       \* a permission or an enabled value that is not defined
  MaxRows      \* bound: rows of each file

\* The files in the order in which they are read, and the comparison at the end.
Phase == <<"services", "acl", "permissions", "expected", "done">>

ServiceId == Service \cup {NoService}
Enabled == BOOLEAN \cup {Other}
ServiceRow == [file : {"services"}, service : ServiceId, enabled : Enabled]
AclRow == [file : {"acl"}, service : ServiceId]
PermissionRow ==
  [file : {"permissions"}, service : ServiceId, permission : Permission \cup {Other}, enabled : Enabled]
Row == ServiceRow \cup AclRow \cup PermissionRow

VARIABLES
  phase,   \* position in Phase
  rows,    \* the rows read so far, of all files
  reading  \* what is known from them

vars == <<phase, rows, reading>>

\* configured_service_ids, seen_global_permissions, global_permissions and what
\* was reported.
Blank == [configured |-> {}, seen |-> {}, granted |-> {}, errors |-> {}]

Init == phase = 1 /\ rows = <<>> /\ reading = Blank

Report(condition, error) == IF condition THEN {error} ELSE {}

-----------------------------------------------------------------------------
\* A service is configured whether it is enabled or not, and once or more often.
AfterService(r, row) ==
  [r EXCEPT !.configured = @ \cup {row.service},
            !.errors = @ \cup Report(row.service \notin Service, "invalid_service")]

AfterAcl(r, row) ==
  [r EXCEPT !.errors = @ \cup Report(row.service \notin Service, "invalid_acl")
                         \cup Report(row.service \notin r.configured, "unconfigured_acl")]

\* The reasons to leave a permission row, in the order of the tests.
RowError(configured, row) ==
  CASE row.service \notin Service \cap configured -> {"unconfigured_permission"}
    [] OTHER -> CASE row.permission \notin Permission -> {"undefined_permission"}
                  [] OTHER -> Report(row.enabled = Other, "invalid_enabled")

Key(row) == <<row.service, row.permission>>

\* Mutant of Remember: only permissions that are granted are remembered.
RememberGranted(seen, row) == IF row.enabled = TRUE THEN seen \cup {Key(row)} ELSE seen

Remember(seen, row) == seen \cup {Key(row)}

AfterPermission(r, row) ==
  LET problem == RowError(r.configured, row)
      found   == IF problem # {} THEN problem ELSE Report(Key(row) \in r.seen, "duplicated_permission")
  IN
  IF found # {} THEN [r EXCEPT !.errors = @ \cup found]
  ELSE [r EXCEPT !.seen = Remember(@, row),
                 !.granted = IF row.enabled = TRUE THEN @ \cup {Key(row)} ELSE @]

After(r, row) ==
  CASE row.file = "services" -> AfterService(r, row)
    [] row.file = "acl" -> AfterAcl(r, row)
    [] row.file = "permissions" -> AfterPermission(r, row)

-----------------------------------------------------------------------------
In(file) == Phase[phase] = file

\* The positions of a file's rows.
At(file) == {i \in DOMAIN rows : rows[i].file = file}

Read(row) ==
  /\ In(row.file) /\ Cardinality(At(row.file)) < MaxRows[row.file]
  /\ rows' = Append(rows, row)
  /\ reading' = After(reading, row)
  /\ UNCHANGED phase

\* Mutant of NextFile: an ACL is read before the services it refers to.
NextFileAclFirst ==
  /\ phase \in 1 .. 3
  /\ phase' = phase + 1
  /\ reading' = IF In("acl") THEN reading ELSE [reading EXCEPT !.configured = {}]
  /\ UNCHANGED rows

NextFile ==
  /\ phase \in 1 .. 3
  /\ phase' = phase + 1
  /\ UNCHANGED <<rows, reading>>

\* The fixture expects permissions, which agree or not, and grant inputs for
\* services; shared is the service that the messages of the control link name.
Compare(agree, inputs, shared) ==
  /\ In("expected")
  /\ phase' = phase + 1
  /\ reading' = [reading EXCEPT !.errors = @
       \cup Report(~ agree, "permissions_differ")
       \cup Report(~ inputs \subseteq Service, "invalid_input")
       \cup Report(~ inputs \cap Service \subseteq reading.configured, "unconfigured_input")
       \cup Report(shared \notin reading.configured, "unconfigured_shared")]
  /\ UNCHANGED rows

Next ==
  \/ \E row \in Row : Read(row)
  \/ NextFile
  \/ \E agree \in BOOLEAN, inputs \in SUBSET ServiceId, shared \in ServiceId : Compare(agree, inputs, shared)

Spec == Init /\ [][Next]_vars

-----------------------------------------------------------------------------
\* The variables' types; a permission is granted only after it was remembered,
\* and only to a service that is configured.
TypeOK ==
  /\ phase \in DOMAIN Phase
  /\ rows \in Seq(Row)
  /\ DOMAIN reading = DOMAIN Blank
  /\ reading.configured = {rows[i].service : i \in At("services")}
  /\ reading.granted \subseteq reading.seen
  /\ reading.seen \subseteq (Service \cap reading.configured) \X Permission

ReadAll(s) == FoldLeft(After, Blank, s)

\* The orders in which the rows of a file may stand.
Orders(file) == Bijection(At(file), At(file))

\* Had the rows of each file stood in any other order, the same would have been
\* reported; and if that is nothing, the same would have been granted.
OrderIrrelevant ==
  In("expected") =>
    \A s \in Orders("services"), a \in Orders("acl"), p \in Orders("permissions") :
      LET place == [services |-> s, acl |-> a, permissions |-> p]
          other == ReadAll([i \in DOMAIN rows |-> rows[place[rows[i].file][i]]])
      IN  /\ other.errors = reading.errors
          /\ reading.errors = {} => other.granted = reading.granted

\* Rows that are accepted leave no doubt about a permission: it is granted exactly
\* when its only row enables it, so that neither a first nor a last row wins.
NoRowWins ==
  reading.errors = {} =>
    /\ reading.granted = {Key(rows[i]) : i \in {j \in At("permissions") : rows[j].enabled = TRUE}}
    /\ \A i, j \in At("permissions") : Key(rows[i]) = Key(rows[j]) => i = j

\* The services that accepted files refer to are enabled by a row of theirs, as
\* relay-csv.md asks of ACLs and permissions ("Existing enabled
\* management-services.csv Managed Service ID").
ServicesAreEnabled ==
  In("done") /\ reading.errors = {} =>
    \A i \in At("acl") \cup At("permissions") :
      \E j \in At("services") : rows[j].service = rows[i].service /\ rows[j].enabled = TRUE

=============================================================================
