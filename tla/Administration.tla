-------------------------- MODULE Administration --------------------------
(***************************************************************************)
(* What administrators keep in the server's database: secrets, encrypted   *)
(* with keys that the environment of the process holds (secrets.py), and   *)
(* runtime profiles with their validation (runtime_profile_service.py).    *)
(* The handlers of app.py call async_store.py, whose operations read and   *)
(* write in separate statements: requests interleave between them, and a   *)
(* restart, with keys of the operator's choice, ends those in flight.      *)
(***************************************************************************)
EXTENDS Naturals, FiniteSets

CONSTANTS
  Names,      \* names of secrets
  Keys,       \* encryption keys
  Ids,        \* runtime profiles, past and future
  Requests,   \* requests that may be in flight at once
  Plugins,    \* adapters of plugins
  Offered,    \* adapters that requests name
  Configs,    \* configurations of profiles, by what validation reads
  MaxValues,  \* bound on the values put into secrets
  MaxStarts,  \* bound on the starts of the server
  Nothing,    \* no row, no request, a field that is not given
  Unused, Gone  \* a profile that was not created yet, one that was deleted

Value == 1..MaxValues
SecretRow == [id : Value, value : Value, key : Keys]

ASSUME AdministrationAssumption ==
  /\ Nothing \notin Names \cup Keys \cup Ids /\ Nothing \notin Configs
  /\ Nothing \notin Value /\ Nothing \notin SecretRow
  /\ MaxValues \in Nat /\ MaxStarts \in Nat

VARIABLES
  secrets,    \* the row of each name: its id, value and key, or Nothing
  active,     \* the key new ciphertexts are made with
  previous,   \* keys that old ciphertexts may still be made with
  profiles,   \* runtime profiles: Unused, Gone or a row
  req,        \* the requests in flight, with what they have read
  values,     \* how many values were put
  starts,     \* how often the server was started
  answered,   \* history variable: the value last acknowledged for each name
  overtaken,  \* history variable: names whose value an older rotation replaced
  settled     \* history variable: whether a rotation ended under this active key

secretVars == <<secrets, values, answered, overtaken, settled>>
server == <<active, previous, starts>>
vars == <<secretVars, server, profiles, req>>

Adapters == {"local", "spark-connect", "kubernetes", "databricks-connect", "databricks"} \cup Plugins

\* validate_runtime_profile.  An absent allowlist is {Nothing} and allows all.
Allowed(item, list) == Nothing \in list \/ item \in list
Valid(adapter, c) ==
  /\ adapter \in Adapters
  /\ c.environment
  /\ ~c.literal /\ ~c.embedded
  /\ adapter = "databricks" => c.url /\ c.pipeline
  /\ adapter = "kubernetes" =>
       /\ c.shaped
       /\ Allowed(c.namespace, c.namespaces)
       /\ Allowed(c.prefix, c.prefixes)  \* prefixes: those that begin with an allowed one
       /\ Allowed(c.account, c.accounts)
       /\ c.template
       /\ \A reference \in c.references : Allowed(reference, c.allowed)

Rows == {i \in Ids : profiles[i] \notin {Unused, Gone}}
Locals == {i \in Rows : profiles[i].adapter = "local"}

ProfileRow == [adapter : Offered \cup {"local"}, config : Configs]

\* What a request has read or been given, by its operation.
Request ==
  [op : {"put"}, name : Names, row : SecretRow \cup {Nothing}, value : Value, key : Keys]
    \cup [op : {"rotate"}, rows : UNION {[S -> SecretRow] : S \in SUBSET Names}]
    \cup [op : {"update"}, id : Ids, next : ProfileRow,
          given : [adapter : Offered \cup {Nothing}, config : Configs \cup {Nothing}]]
    \cup [op : {"delete"}, id : Ids, locals : SUBSET Ids]

TypeOK ==
  /\ secrets \in [Names -> SecretRow \cup {Nothing}]
  /\ active \in Keys /\ previous \subseteq Keys
  /\ profiles \in [Ids -> ProfileRow \cup {Unused, Gone}]
  /\ req \in [Requests -> Request \cup {Nothing}]
  /\ values \in 0..MaxValues /\ starts \in Nat
  /\ answered \in [Names -> Value \cup {Nothing}]
  /\ overtaken \subseteq Names /\ settled \in BOOLEAN

\* DataStore.__init__ gives an empty table one profile.
Seeded(table) ==
  IF \A i \in Ids : table[i] \in {Unused, Gone}
  THEN {[table EXCEPT ![i] = [adapter |-> "local", config |-> c]] :
          i \in {j \in Ids : table[j] = Unused}, c \in {d \in Configs : Valid("local", d)}}
  ELSE {table}

Init ==
  /\ secrets = [n \in Names |-> Nothing]
  /\ active \in Keys /\ previous = {}
  /\ profiles \in Seeded([i \in Ids |-> Unused])
  /\ req = [r \in Requests |-> Nothing]
  /\ values = 0 /\ starts = 1
  /\ answered = [n \in Names |-> Nothing]
  /\ overtaken = {} /\ settled = FALSE

Idle(r) == req[r] = Nothing
At(r, op) == ~Idle(r) /\ req[r].op = op
Go(r, request) == req' = [req EXCEPT ![r] = request]
Done(r) == Go(r, Nothing)

-----------------------------------------------------------------------------
(* Secrets.  A ciphertext opens with any key the process knows, in the     *)
(* present and in the legacy format.                                       *)

Known == {active} \cup previous
Opens(row) == row.key \in Known

\* put_secret: the value is encrypted and the row of the name looked up.
PutRead(r) ==
  /\ Idle(r)
  /\ values < MaxValues
  /\ values' = values + 1
  /\ \E n \in Names :
       Go(r, [op |-> "put", name |-> n, row |-> secrets[n], value |-> values', key |-> active])
  /\ UNCHANGED <<secrets, answered, overtaken, settled, server, profiles>>

\* It writes the row it has found, or a new one; an error when that row is
\* gone or the name taken meanwhile.
PutWrite(r) ==
  /\ At(r, "put")
  /\ LET n == req[r].name
         found == req[r].row
         new == found = Nothing
         written == IF new THEN secrets[n] = Nothing
                    ELSE secrets[n] # Nothing /\ secrets[n].id = found.id
     IN  IF written
         THEN /\ secrets' = [secrets EXCEPT ![n] =
                   [id |-> IF new THEN req[r].value ELSE found.id,
                    value |-> req[r].value, key |-> req[r].key]]
              /\ answered' = [answered EXCEPT ![n] = req[r].value]
              /\ overtaken' = overtaken \ {n}
         ELSE UNCHANGED <<secrets, answered, overtaken>>
  /\ Done(r)
  /\ UNCHANGED <<values, settled, server, profiles>>

DeleteSecret ==
  \E n \in Names :
    /\ secrets[n] # Nothing
    /\ secrets' = [secrets EXCEPT ![n] = Nothing]
    /\ answered' = [answered EXCEPT ![n] = Nothing]
    /\ overtaken' = overtaken \ {n}
    /\ UNCHANGED <<values, settled, server, profiles, req>>

\* rotate_secrets reads all rows, and raises when it cannot open one.
RotateRead(r) ==
  /\ Idle(r)
  /\ LET rows == [n \in {m \in Names : secrets[m] # Nothing} |-> secrets[n]]
     IN  /\ \A n \in DOMAIN rows : Opens(rows[n])
         /\ Go(r, [op |-> "rotate", rows |-> rows])
  /\ UNCHANGED <<secretVars, server, profiles>>

\* Mutant of Rotated: every name that was read is written.
RotatedAnyway(rows) == DOMAIN rows

\* UPDATE ... WHERE id: rows that are still there.
Rotated(rows) == {n \in DOMAIN rows : secrets[n] # Nothing /\ secrets[n].id = rows[n].id}

\* The values it has read, under the active key, in one transaction.
RotateWrite(r) ==
  /\ At(r, "rotate")
  /\ LET rows == req[r].rows
     IN  /\ secrets' = [n \in Names |-> IF n \in Rotated(rows)
                                        THEN [rows[n] EXCEPT !.key = active] ELSE secrets[n]]
         /\ overtaken' = overtaken \cup
              {n \in Rotated(rows) : secrets[n] # Nothing /\ secrets[n].value # rows[n].value}
  /\ settled' = TRUE
  /\ Done(r)
  /\ UNCHANGED <<values, answered, server, profiles>>

-----------------------------------------------------------------------------
(* Runtime profiles.                                                       *)

Create ==
  \E i \in Ids, adapter \in Offered, c \in Configs :
    /\ profiles[i] = Unused
    /\ Valid(adapter, c)
    /\ profiles' = [profiles EXCEPT ![i] = [adapter |-> adapter, config |-> c]]
    /\ UNCHANGED <<secretVars, server, req>>

\* update_runtime_profile reads the row, completes the request with it and
\* validates the result.
Given(field, current) == IF field = Nothing THEN current ELSE field
UpdateRead(r) ==
  /\ Idle(r)
  /\ \E i \in Rows, adapter \in Offered \cup {Nothing}, c \in Configs \cup {Nothing} :
       LET next == [adapter |-> Given(adapter, profiles[i].adapter),
                    config |-> Given(c, profiles[i].config)]
       IN  /\ Valid(next.adapter, next.config)
           /\ Go(r, [op |-> "update", id |-> i, next |-> next,
                     given |-> [adapter |-> adapter, config |-> c]])
  /\ UNCHANGED <<secretVars, server, profiles>>

\* Mutant of Updated: only the columns of the request are written.
UpdatedColumns(row, request) ==
  [adapter |-> Given(request.given.adapter, row.adapter),
   config |-> Given(request.given.config, row.config)]

\* Every column, as completed and validated.
Updated(row, request) == request.next
UpdateWrite(r) ==
  /\ At(r, "update")
  /\ profiles' = IF req[r].id \in Rows
                 THEN [profiles EXCEPT ![req[r].id] = Updated(@, req[r])] ELSE profiles
  /\ Done(r)
  /\ UNCHANGED <<secretVars, server>>

\* Mutant of Spare: off by one.
SpareOne(i) == Cardinality(Locals) >= 1

\* delete_runtime_profile counts the local profiles.
Spare(i) == i \in Locals => Cardinality(Locals) > 1
DeleteRead(r) ==
  /\ Idle(r)
  /\ \E i \in Rows :
       /\ Spare(i)
       /\ Go(r, [op |-> "delete", id |-> i, locals |-> Locals])
  /\ UNCHANGED <<secretVars, server, profiles>>

DeleteWrite(r) ==
  /\ At(r, "delete")
  /\ profiles' = [profiles EXCEPT ![req[r].id] = Gone]
  /\ Done(r)
  /\ UNCHANGED <<secretVars, server>>

-----------------------------------------------------------------------------
\* The operator restarts the server with another active key or other previous
\* ones, and lets a key go only when a rotation has ended under the active one.
Restart ==
  /\ starts < MaxStarts
  /\ starts' = starts + 1
  /\ active' \in Keys /\ previous' \in SUBSET Keys
  /\ (IF settled THEN {active} ELSE Known) \subseteq Known'
  /\ settled' = (settled /\ active' = active)
  /\ req' = [r \in Requests |-> Nothing]
  /\ profiles' \in Seeded(profiles)
  /\ UNCHANGED <<secrets, values, answered, overtaken>>

Next ==
  \/ DeleteSecret \/ Create \/ Restart
  \/ \E r \in Requests :
       \/ PutRead(r) \/ PutWrite(r) \/ RotateRead(r) \/ RotateWrite(r)
       \/ UpdateRead(r) \/ UpdateWrite(r) \/ DeleteRead(r) \/ DeleteWrite(r)

Spec == Init /\ [][Next]_vars

-----------------------------------------------------------------------------
\* Every secret that was acknowledged and not deleted can be resolved, with
\* the keys of the process as it runs, to the value last acknowledged: through
\* rotations, changes of keys and restarts at any point.  Left out are values
\* a rotation replaced by what it had read before them.
SecretsResolve ==
  \A n \in Names :
    IF answered[n] = Nothing THEN secrets[n] = Nothing
    ELSE /\ secrets[n] # Nothing
         /\ Opens(secrets[n])
         /\ secrets[n].value = answered[n] \/ n \in overtaken

\* Every stored profile is one that validation accepts, whatever updates of
\* its fields meet.
ProfilesAreValid == \A i \in Rows : Valid(profiles[i].adapter, profiles[i].config)

\* The last local profile goes only with an update of its adapter, or with a
\* deletion that had counted other local profiles than there are.
LastLocalIsKept ==
  [][ Locals # {} /\ Locals' = {} =>
        \E r \in Requests : UpdateWrite(r) \/ (DeleteWrite(r) /\ req[r].locals # Locals) ]_vars
=============================================================================
