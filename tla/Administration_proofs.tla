------------------------ MODULE Administration_proofs ------------------------
(***************************************************************************)
(* Proofs about Administration for any number of secrets, keys, profiles   *)
(* and requests, whatever keys the operator restarts the server with.      *)
(***************************************************************************)
EXTENDS Administration, FiniteSetTheorems, TLAPS

-----------------------------------------------------------------------------
(* The inductive invariants.                                               *)

\* The adapters and configurations in the table and in the requests that are
\* about to write are ones that validation accepts.
ProfilesInv ==
  /\ ProfilesAreValid
  /\ \A r \in Requests : At(r, "update") => Valid(req[r].next.adapter, req[r].next.config)

\* A deletion in flight counted another local profile than its own.
DeletionsInv == \A r \in Requests : At(r, "delete") => req[r].locals # {req[r].id}

\* A row exists for every acknowledged name, its ciphertext opens, and once a
\* rotation has ended under the active key every ciphertext is under that key.
RowsInv ==
  \A n \in Names :
    /\ answered[n] = Nothing <=> secrets[n] = Nothing
    /\ secrets[n] # Nothing =>
         /\ Opens(secrets[n])
         /\ settled => secrets[n].key = active
         /\ secrets[n].value = answered[n] \/ n \in overtaken

\* A put in flight has encrypted under the active key.
PutsInv == \A r \in Requests : At(r, "put") => req[r].key = active

\* A row that a rotation in flight will not write has the active key already:
\* it was put after the rotation had read.
RotationsInv ==
  \A r \in Requests : At(r, "rotate") =>
    \A n \in Names : secrets[n] # Nothing =>
      \/ n \in DOMAIN req[r].rows /\ secrets[n].id = req[r].rows[n].id
      \/ secrets[n].key = active

SecretsInv == RowsInv /\ PutsInv /\ RotationsInv

-----------------------------------------------------------------------------
(* Every variable keeps its type.                                          *)

\* What starts the server keeps the table, or gives an empty one a profile.
LEMMA SeededTable ==
  ASSUME NEW table \in [Ids -> ProfileRow \cup {Unused, Gone}], NEW seeded \in Seeded(table)
  PROVE  /\ seeded \in [Ids -> ProfileRow \cup {Unused, Gone}]
         /\ \/ seeded = table
            \/ /\ \A i \in Ids : table[i] \in {Unused, Gone}
               /\ \E i \in Ids, c \in Configs :
                    /\ Valid("local", c)
                    /\ seeded = [table EXCEPT ![i] = [adapter |-> "local", config |-> c]]
<1>1. CASE \A i \in Ids : table[i] \in {Unused, Gone}
  <2>1. PICK i \in Ids, c \in Configs :
          /\ Valid("local", c)
          /\ seeded = [table EXCEPT ![i] = [adapter |-> "local", config |-> c]]
    BY <1>1 DEF Seeded
  <2>2. [adapter |-> "local", config |-> c] \in ProfileRow
    BY DEF ProfileRow
  <2> QED BY <1>1, <2>1, <2>2
<1>2. CASE ~ \A i \in Ids : table[i] \in {Unused, Gone}
  BY <1>2 DEF Seeded
<1> QED BY <1>1, <1>2

\* An empty database with one profile has the types.
LEMMA TypeInit == Init => TypeOK
<1> SUFFICES ASSUME Init PROVE TypeOK
  OBVIOUS
<1>1. [i \in Ids |-> Unused] \in [Ids -> ProfileRow \cup {Unused, Gone}]
  OBVIOUS
<1>2. profiles \in [Ids -> ProfileRow \cup {Unused, Gone}]
  BY <1>1, SeededTable DEF Init
<1>3. /\ secrets \in [Names -> SecretRow \cup {Nothing}]
      /\ answered \in [Names -> Value \cup {Nothing}]
      /\ req \in [Requests -> Request \cup {Nothing}]
  BY DEF Init
<1>4. values \in 0..MaxValues /\ starts \in Nat
  BY AdministrationAssumption DEF Init
<1> QED BY <1>2, <1>3, <1>4 DEF Init, TypeOK

\* Handing a request over to its next step, or answering it, keeps its type.
LEMMA GoTyped ==
  ASSUME TypeOK, NEW r \in Requests, NEW request \in Request \cup {Nothing}, Go(r, request)
  PROVE  req' \in [Requests -> Request \cup {Nothing}]
BY DEF Go, TypeOK

\* Every request, and a restart, keeps the types.
LEMMA TypeStep == TypeOK /\ [Next]_vars => TypeOK'
<1> SUFFICES ASSUME TypeOK, [Next]_vars PROVE TypeOK'
  OBVIOUS
<1> USE AdministrationAssumption
<1>1. CASE DeleteSecret
  BY <1>1 DEF DeleteSecret, TypeOK, server
<1>2. CASE Create
  <2>1. PICK i \in Ids, adapter \in Offered, c \in Configs :
          profiles' = [profiles EXCEPT ![i] = [adapter |-> adapter, config |-> c]]
    BY <1>2 DEF Create
  <2>2. [adapter |-> adapter, config |-> c] \in ProfileRow
    BY DEF ProfileRow
  <2>3. UNCHANGED <<secretVars, server, req>>
    BY <1>2 DEF Create
  <2> QED BY <2>1, <2>2, <2>3 DEF TypeOK, secretVars, server
<1>3. CASE Restart
  <2>1. profiles' \in [Ids -> ProfileRow \cup {Unused, Gone}]
    BY <1>3, SeededTable DEF Restart, TypeOK
  <2> QED BY <1>3, <2>1 DEF Restart, TypeOK
<1>4. ASSUME NEW r \in Requests, PutRead(r) PROVE TypeOK'
  <2>1. values' \in Value /\ values' \in 0..MaxValues
    BY <1>4 DEF PutRead, TypeOK, Value
  <2>2. PICK n \in Names :
          Go(r, [op |-> "put", name |-> n, row |-> secrets[n], value |-> values', key |-> active])
    BY <1>4 DEF PutRead
  <2>3. [op |-> "put", name |-> n, row |-> secrets[n], value |-> values', key |-> active]
          \in Request
    BY <2>1 DEF Request, TypeOK
  <2> QED BY <1>4, <2>1, <2>2, <2>3, GoTyped DEF PutRead, TypeOK, server
<1>5. ASSUME NEW r \in Requests, PutWrite(r) PROVE TypeOK'
  <2>1. req' \in [Requests -> Request \cup {Nothing}]
    BY <1>5, GoTyped DEF PutWrite, Done
  <2>2. req[r].name \in Names /\ req[r].value \in Value /\ req[r].key \in Keys
        /\ req[r].row \in SecretRow \cup {Nothing}
    BY <1>5 DEF PutWrite, At, Idle, TypeOK, Request
  <2>3. [id |-> IF req[r].row = Nothing THEN req[r].value ELSE req[r].row.id,
         value |-> req[r].value, key |-> req[r].key] \in SecretRow
    BY <2>2 DEF SecretRow
  <2>4. /\ secrets' \in [Names -> SecretRow \cup {Nothing}]
        /\ answered' \in [Names -> Value \cup {Nothing}]
        /\ overtaken' \subseteq Names
    BY <1>5, <2>2, <2>3 DEF PutWrite, TypeOK
  <2> QED BY <1>5, <2>1, <2>4 DEF PutWrite, TypeOK, server
<1>6. ASSUME NEW r \in Requests, RotateRead(r) PROVE TypeOK'
  <2> DEFINE rows == [n \in {m \in Names : secrets[m] # Nothing} |-> secrets[n]]
  <2>1. rows \in UNION {[S -> SecretRow] : S \in SUBSET Names}
    <3>1. rows \in [{m \in Names : secrets[m] # Nothing} -> SecretRow]
      BY DEF TypeOK
    <3>2. {m \in Names : secrets[m] # Nothing} \in SUBSET Names
      OBVIOUS
    <3> HIDE DEF rows
    <3> QED BY <3>1, <3>2
  <2>2. [op |-> "rotate", rows |-> rows] \in Request
    BY <2>1 DEF Request
  <2>3. Go(r, [op |-> "rotate", rows |-> rows])
    BY <1>6 DEF RotateRead
  <2>4. UNCHANGED <<secretVars, server, profiles>>
    BY <1>6 DEF RotateRead
  <2> QED BY <2>2, <2>3, <2>4, GoTyped DEF TypeOK, secretVars, server
<1>7. ASSUME NEW r \in Requests, RotateWrite(r) PROVE TypeOK'
  <2>1. req' \in [Requests -> Request \cup {Nothing}]
    BY <1>7, GoTyped DEF RotateWrite, Done
  <2>2. req[r].rows \in UNION {[S -> SecretRow] : S \in SUBSET Names}
    BY <1>7 DEF RotateWrite, At, Idle, TypeOK, Request
  <2>3. Rotated(req[r].rows) \subseteq Names
    BY <2>2 DEF Rotated
  <2>4. \A n \in Rotated(req[r].rows) : [req[r].rows[n] EXCEPT !.key = active] \in SecretRow
    BY <2>2 DEF Rotated, SecretRow, TypeOK
  <2>5. secrets' \in [Names -> SecretRow \cup {Nothing}]
    BY <1>7, <2>3, <2>4 DEF RotateWrite, TypeOK
  <2> QED BY <1>7, <2>1, <2>3, <2>5 DEF RotateWrite, TypeOK, server
<1>8. ASSUME NEW r \in Requests, UpdateRead(r) PROVE TypeOK'
  <2>1. PICK i \in Rows, adapter \in Offered \cup {Nothing}, c \in Configs \cup {Nothing} :
          Go(r, [op |-> "update", id |-> i,
                 next |-> [adapter |-> Given(adapter, profiles[i].adapter),
                           config |-> Given(c, profiles[i].config)],
                 given |-> [adapter |-> adapter, config |-> c]])
    BY <1>8 DEF UpdateRead
  <2>2. i \in Ids /\ profiles[i] \in ProfileRow
    BY DEF Rows, TypeOK
  <2>3. [adapter |-> Given(adapter, profiles[i].adapter),
         config |-> Given(c, profiles[i].config)] \in ProfileRow
    BY <2>2 DEF Given, ProfileRow
  <2>4. [op |-> "update", id |-> i,
         next |-> [adapter |-> Given(adapter, profiles[i].adapter),
                   config |-> Given(c, profiles[i].config)],
         given |-> [adapter |-> adapter, config |-> c]] \in Request
    BY <2>2, <2>3 DEF Request
  <2>5. UNCHANGED <<secretVars, server, profiles>>
    BY <1>8 DEF UpdateRead
  <2> QED BY <2>1, <2>4, <2>5, GoTyped DEF TypeOK, secretVars, server
<1>9. ASSUME NEW r \in Requests, UpdateWrite(r) PROVE TypeOK'
  <2>1. req' \in [Requests -> Request \cup {Nothing}]
    BY <1>9, GoTyped DEF UpdateWrite, Done
  <2>2. req[r].next \in ProfileRow
    BY <1>9 DEF UpdateWrite, At, Idle, TypeOK, Request
  <2>3. profiles' \in [Ids -> ProfileRow \cup {Unused, Gone}]
    BY <1>9, <2>2 DEF UpdateWrite, Updated, TypeOK
  <2> QED BY <1>9, <2>1, <2>3 DEF UpdateWrite, TypeOK, secretVars, server
<1>10. ASSUME NEW r \in Requests, DeleteRead(r) PROVE TypeOK'
  <2>1. PICK i \in Rows : Go(r, [op |-> "delete", id |-> i, locals |-> Locals])
    BY <1>10 DEF DeleteRead
  <2>2. [op |-> "delete", id |-> i, locals |-> Locals] \in Request
    BY DEF Request, Rows, Locals
  <2>3. UNCHANGED <<secretVars, server, profiles>>
    BY <1>10 DEF DeleteRead
  <2> QED BY <2>1, <2>2, <2>3, GoTyped DEF TypeOK, secretVars, server
<1>11. ASSUME NEW r \in Requests, DeleteWrite(r) PROVE TypeOK'
  <2>1. req' \in [Requests -> Request \cup {Nothing}]
    BY <1>11, GoTyped DEF DeleteWrite, Done
  <2> QED BY <1>11, <2>1 DEF DeleteWrite, TypeOK, secretVars, server
<1>12. CASE UNCHANGED vars
  BY <1>12 DEF vars, TypeOK, secretVars, server
<1> QED
  BY <1>1, <1>2, <1>3, <1>4, <1>5, <1>6, <1>7, <1>8, <1>9, <1>10, <1>11, <1>12 DEF Next

\* The tables and what the requests in flight hold keep their types.
THEOREM TypeCorrect == Spec => []TypeOK
BY TypeInit, TypeStep, PTL DEF Spec

-----------------------------------------------------------------------------
(* Secrets.  SecretsResolve is not inductive: a restart may drop a key only *)
(* because a rotation has ended under the active one, which says something *)
(* of the keys only together with what the puts and the rotations that     *)
(* were in flight then have read.                                          *)

\* A row that a put or a rotation is about to write has its type.
LEMMA RequestTyped ==
  ASSUME TypeOK, NEW r \in Requests
  PROVE  /\ At(r, "put") =>
              /\ req[r].name \in Names /\ req[r].value \in Value /\ req[r].key \in Keys
              /\ req[r].row \in SecretRow \cup {Nothing}
         /\ At(r, "rotate") =>
              \E S \in SUBSET Names : req[r].rows \in [S -> SecretRow]
BY DEF At, Idle, TypeOK, Request

\* The other requests keep what they hold while one moves on.
LEMMA OthersWait ==
  ASSUME TypeOK, NEW r \in Requests, NEW request, Go(r, request),
         NEW q \in Requests, q # r, NEW op
  PROVE  req'[q] = req[q] /\ (At(q, op)' <=> At(q, op))
BY DEF Go, At, Idle, TypeOK

\* A request that is answered is at no operation.
LEMMA DoneLeaves ==
  ASSUME TypeOK, NEW r \in Requests, Done(r), NEW q \in Requests, NEW op, At(q, op)'
  PROVE  q # r /\ req'[q] = req[q] /\ At(q, op)
BY DEF Done, Go, At, Idle, TypeOK

\* An empty database has no secrets.
LEMMA SecretsInit == Init => SecretsInv
BY DEF Init, SecretsInv, RowsInv, PutsInv, RotationsInv, At, Idle

\* What a put writes is encrypted under the key that is active.
LEMMA PutKeepsSecrets ==
  ASSUME TypeOK, SecretsInv, NEW r \in Requests, PutWrite(r)
  PROVE  SecretsInv'
<1> USE AdministrationAssumption
<1> DEFINE n == req[r].name
<1>1. /\ n \in Names /\ req[r].value \in Value /\ req[r].row \in SecretRow \cup {Nothing}
      /\ req[r].key = active
  BY RequestTyped DEF PutWrite, SecretsInv, PutsInv
<1> DEFINE written == IF req[r].row = Nothing THEN secrets[n] = Nothing
                      ELSE secrets[n] # Nothing /\ secrets[n].id = req[r].row.id
<1>2.   IF written
        THEN /\ secrets' = [secrets EXCEPT ![n] =
                  [id |-> IF req[r].row = Nothing THEN req[r].value ELSE req[r].row.id,
                   value |-> req[r].value, key |-> req[r].key]]
             /\ answered' = [answered EXCEPT ![n] = req[r].value]
             /\ overtaken' = overtaken \ {n}
        ELSE UNCHANGED <<secrets, answered, overtaken>>
  BY DEF PutWrite
<1> HIDE DEF written
<1>3. settled' = settled /\ active' = active /\ previous' = previous
  BY DEF PutWrite, server
<1>4. ASSUME NEW m \in Names, m # n
      PROVE  /\ secrets'[m] = secrets[m] /\ answered'[m] = answered[m]
             /\ m \in overtaken => m \in overtaken'
  BY <1>1, <1>2, <1>4 DEF TypeOK
<1>5. \/ UNCHANGED <<secrets, answered, overtaken>>
      \/ /\ secrets'[n] # Nothing /\ answered'[n] # Nothing
         /\ secrets'[n].key = active /\ secrets'[n].value = answered'[n]
  <2>1. CASE written
    <3>1. secrets'[n] = [id |-> IF req[r].row = Nothing THEN req[r].value ELSE req[r].row.id,
                         value |-> req[r].value, key |-> req[r].key]
          /\ answered'[n] = req[r].value
      BY <1>1, <1>2, <2>1 DEF TypeOK
    <3>2. secrets'[n] \in SecretRow
      BY <1>1, <3>1, RequestTyped DEF SecretRow, PutWrite
    <3> QED BY <1>1, <3>1, <3>2
  <2> QED BY <1>2, <2>1
<1> HIDE DEF n
<1>6. RowsInv'
  <2> SUFFICES ASSUME NEW m \in Names
               PROVE  /\ answered'[m] = Nothing <=> secrets'[m] = Nothing
                      /\ secrets'[m] # Nothing =>
                           /\ secrets'[m].key \in {active} \cup previous
                           /\ settled => secrets'[m].key = active
                           /\ secrets'[m].value = answered'[m] \/ m \in overtaken'
    BY <1>3 DEF RowsInv, Opens, Known
  <2>1. /\ answered[m] = Nothing <=> secrets[m] = Nothing
        /\ secrets[m] # Nothing =>
             /\ secrets[m].key \in {active} \cup previous
             /\ settled => secrets[m].key = active
             /\ secrets[m].value = answered[m] \/ m \in overtaken
    BY DEF SecretsInv, RowsInv, Opens, Known
  <2>2. CASE m = n
    BY <1>5, <2>1, <2>2
  <2>3. CASE m # n
    <3>1. secrets'[m] = secrets[m] /\ answered'[m] = answered[m]
          /\ (m \in overtaken => m \in overtaken')
      BY <1>4, <2>3
    <3> QED BY <2>1, <3>1
  <2> QED BY <2>2, <2>3
<1>7. PutsInv'
  BY <1>3, DoneLeaves DEF PutWrite, SecretsInv, PutsInv
<1>8. RotationsInv'
  <2> SUFFICES ASSUME NEW q \in Requests, At(q, "rotate")', NEW m \in Names,
                      secrets'[m] # Nothing
               PROVE  \/ m \in DOMAIN req'[q].rows /\ secrets'[m].id = req'[q].rows[m].id
                      \/ secrets'[m].key = active'
    BY DEF RotationsInv
  <2>1. req'[q] = req[q] /\ At(q, "rotate")
    BY DoneLeaves DEF PutWrite
  <2>2. secrets'[m] = secrets[m] \/ secrets'[m].key = active
    BY <1>4, <1>5
  <2> QED BY <1>3, <2>1, <2>2 DEF SecretsInv, RotationsInv
<1> QED BY <1>6, <1>7, <1>8 DEF SecretsInv

\* A rotation leaves every row it has not written under the active key too.
LEMMA RotationKeepsSecrets ==
  ASSUME TypeOK, SecretsInv, NEW r \in Requests, RotateWrite(r)
  PROVE  SecretsInv'
<1> USE AdministrationAssumption
<1> DEFINE rows == req[r].rows
<1>1. PICK S \in SUBSET Names : rows \in [S -> SecretRow]
  BY RequestTyped DEF RotateWrite
<1>2. active' = active /\ previous' = previous /\ answered' = answered
  BY DEF RotateWrite, server
<1>3. ASSUME NEW n \in Names
      PROVE  /\ secrets'[n] = IF n \in Rotated(rows)
                               THEN [rows[n] EXCEPT !.key = active] ELSE secrets[n]
             /\ n \in Rotated(rows) =>
                  /\ secrets[n] # Nothing /\ secrets'[n] \in SecretRow
                  /\ secrets'[n].key = active /\ secrets'[n].id = secrets[n].id
                  /\ secrets'[n].value = secrets[n].value \/ n \in overtaken'
             /\ n \in overtaken => n \in overtaken'
  <2>1. secrets'[n] = IF n \in Rotated(rows)
                      THEN [rows[n] EXCEPT !.key = active] ELSE secrets[n]
    BY DEF RotateWrite
  <2>2. ASSUME n \in Rotated(rows)
        PROVE  /\ secrets[n] # Nothing /\ rows[n] \in SecretRow
               /\ secrets[n].id = rows[n].id
               /\ rows[n].value = secrets[n].value \/ n \in overtaken'
    BY <1>1, <2>2 DEF RotateWrite, Rotated
  <2>3. ASSUME n \in Rotated(rows)
        PROVE  /\ secrets'[n] \in SecretRow /\ secrets'[n].key = active
               /\ secrets'[n].id = rows[n].id /\ secrets'[n].value = rows[n].value
    BY <2>1, <2>2, <2>3 DEF TypeOK, SecretRow
  <2>4. n \in overtaken => n \in overtaken'
    BY DEF RotateWrite
  <2> QED BY <2>1, <2>2, <2>3, <2>4
<1>4. ASSUME NEW n \in Names, secrets[n] # Nothing, n \notin Rotated(rows)
      PROVE  secrets[n].key = active
  BY <1>4 DEF SecretsInv, RotationsInv, RotateWrite, Rotated
<1>5. RowsInv'
  <2> SUFFICES ASSUME NEW n \in Names
               PROVE  /\ answered'[n] = Nothing <=> secrets'[n] = Nothing
                      /\ secrets'[n] # Nothing =>
                           /\ secrets'[n].key \in {active'} \cup previous'
                           /\ settled' => secrets'[n].key = active'
                           /\ secrets'[n].value = answered'[n] \/ n \in overtaken'
    BY DEF RowsInv, Opens, Known
  <2>1. /\ answered[n] = Nothing <=> secrets[n] = Nothing
        /\ secrets[n] # Nothing => secrets[n].value = answered[n] \/ n \in overtaken
    BY DEF SecretsInv, RowsInv
  <2>2. CASE n \in Rotated(rows)
    BY <1>2, <1>3, <2>1, <2>2
  <2>3. CASE n \notin Rotated(rows)
    BY <1>2, <1>3, <1>4, <2>1, <2>3
  <2> QED BY <2>2, <2>3
<1>6. PutsInv'
  BY <1>2, DoneLeaves DEF RotateWrite, SecretsInv, PutsInv
<1>7. RotationsInv'
  <2> SUFFICES ASSUME NEW n \in Names, secrets'[n] # Nothing PROVE secrets'[n].key = active'
    BY DEF RotationsInv
  <2> QED BY <1>2, <1>3, <1>4
<1> QED BY <1>5, <1>6, <1>7 DEF SecretsInv

\* Every step keeps the secrets open.
LEMMA SecretsStep == TypeOK /\ SecretsInv /\ [Next]_vars => SecretsInv'
<1> SUFFICES ASSUME TypeOK, SecretsInv, [Next]_vars PROVE SecretsInv'
  OBVIOUS
<1> USE AdministrationAssumption
<1>1. CASE DeleteSecret
  BY <1>1 DEF DeleteSecret, server, TypeOK, SecretsInv, RowsInv, PutsInv, RotationsInv,
              Opens, Known, At, Idle
<1>2. ASSUME UNCHANGED <<secretVars, server>>,
             \A r \in Requests : (At(r, "put") \/ At(r, "rotate"))' => req'[r] = req[r]
      PROVE  SecretsInv'
  BY <1>2 DEF secretVars, server, SecretsInv, RowsInv, PutsInv, RotationsInv,
              Opens, Known, At, Idle
<1>3. CASE Create \/ UNCHANGED vars
  BY <1>2, <1>3 DEF Create, vars
<1>4. CASE Restart
  <2>1. \A r \in Requests : req'[r] = Nothing
    BY <1>4 DEF Restart
  <2>2. /\ secrets' = secrets /\ answered' = answered /\ overtaken' = overtaken
        /\ (IF settled THEN {active} ELSE Known) \subseteq Known'
        /\ settled' = (settled /\ active' = active)
    BY <1>4 DEF Restart
  <2>3. RowsInv'
    BY <2>2 DEF SecretsInv, RowsInv, Opens
  <2> QED BY <2>1, <2>3 DEF SecretsInv, PutsInv, RotationsInv, At, Idle
<1>5. ASSUME NEW r \in Requests, PutRead(r) PROVE SecretsInv'
  <2>1. PICK n \in Names :
          Go(r, [op |-> "put", name |-> n, row |-> secrets[n], value |-> values', key |-> active])
    BY <1>5 DEF PutRead
  <2>2. req'[r].op = "put" /\ req'[r].key = active
    BY <2>1 DEF Go, TypeOK
  <2>3. UNCHANGED <<secrets, answered, overtaken, settled, server>>
    BY <1>5 DEF PutRead
  <2>4. RowsInv'
    BY <2>3 DEF SecretsInv, RowsInv, Opens, Known, server
  <2>5. PutsInv'
    BY <2>1, <2>2, <2>3, OthersWait DEF SecretsInv, PutsInv, server
  <2>6. RotationsInv'
    <3>1. ASSUME NEW q \in Requests, At(q, "rotate")' PROVE q # r
      BY <2>2, <3>1 DEF At
    <3> QED BY <2>1, <2>3, <3>1, OthersWait DEF SecretsInv, RotationsInv, server
  <2> QED BY <2>4, <2>5, <2>6 DEF SecretsInv
<1>6. ASSUME NEW r \in Requests, PutWrite(r) PROVE SecretsInv'
  BY <1>6, PutKeepsSecrets
<1>7. ASSUME NEW r \in Requests, RotateRead(r) PROVE SecretsInv'
  <2> DEFINE rows == [n \in {m \in Names : secrets[m] # Nothing} |-> secrets[n]]
  <2>1. Go(r, [op |-> "rotate", rows |-> rows])
    BY <1>7 DEF RotateRead
  <2>2. req'[r].op = "rotate" /\ req'[r].rows = rows
    BY <2>1 DEF Go, TypeOK
  <2>3. UNCHANGED <<secretVars, server>>
    BY <1>7 DEF RotateRead
  <2>4. RowsInv'
    BY <2>3 DEF SecretsInv, RowsInv, Opens, Known, server, secretVars
  <2>5. PutsInv'
    <3>1. ASSUME NEW q \in Requests, At(q, "put")' PROVE q # r
      BY <2>2, <3>1 DEF At
    <3> QED BY <2>1, <2>3, <3>1, OthersWait DEF SecretsInv, PutsInv, server
  <2>6. RotationsInv'
    BY <2>1, <2>2, <2>3, OthersWait DEF SecretsInv, RotationsInv, server, secretVars
  <2> QED BY <2>4, <2>5, <2>6 DEF SecretsInv
<1>8. ASSUME NEW r \in Requests, RotateWrite(r) PROVE SecretsInv'
  BY <1>8, RotationKeepsSecrets
<1>9. ASSUME NEW r \in Requests, UpdateRead(r) \/ DeleteRead(r) PROVE SecretsInv'
  <2>1. req'[r].op \in {"update", "delete"}
    BY <1>9 DEF UpdateRead, DeleteRead, Go, TypeOK
  <2>2. \A q \in Requests : q # r => req'[q] = req[q]
    BY <1>9 DEF UpdateRead, DeleteRead, Go, TypeOK
  <2>3. \A q \in Requests : (At(q, "put") \/ At(q, "rotate"))' => req'[q] = req[q]
    BY <2>1, <2>2 DEF At
  <2>4. UNCHANGED <<secretVars, server>>
    BY <1>9 DEF UpdateRead, DeleteRead
  <2> QED BY <1>2, <2>3, <2>4
<1>10. ASSUME NEW r \in Requests, UpdateWrite(r) \/ DeleteWrite(r) PROVE SecretsInv'
  BY <1>2, <1>10, DoneLeaves DEF UpdateWrite, DeleteWrite
<1> QED
  BY <1>1, <1>3, <1>4, <1>5, <1>6, <1>7, <1>8, <1>9, <1>10 DEF Next

\* Every secret that was acknowledged opens under the keys of the running
\* process, through rotations and changes of keys, whatever was in flight.
THEOREM SecretsStayOpen == Spec => []SecretsResolve
<1>1. SecretsInv => SecretsResolve
  BY DEF SecretsInv, RowsInv, SecretsResolve
<1> QED BY <1>1, TypeInit, TypeStep, SecretsInit, SecretsStep, PTL DEF Spec
-----------------------------------------------------------------------------
(* Profiles.  What update_runtime_profile writes was validated when it was *)
(* read, and validation reads nothing that could have changed since.       *)

\* The profile an empty table is given is valid, and so is a kept table.
LEMMA SeededValid ==
  ASSUME NEW table \in [Ids -> ProfileRow \cup {Unused, Gone}], NEW seeded \in Seeded(table),
         \A i \in Ids : table[i] \notin {Unused, Gone} => Valid(table[i].adapter, table[i].config)
  PROVE  \A i \in Ids :
           seeded[i] \notin {Unused, Gone} => Valid(seeded[i].adapter, seeded[i].config)
BY SeededTable

\* The first profile is valid.
LEMMA ProfilesInit == Init => ProfilesInv
<1> SUFFICES ASSUME Init PROVE ProfilesInv
  OBVIOUS
<1>1. \A i \in Ids : profiles[i] \notin {Unused, Gone}
                     => Valid(profiles[i].adapter, profiles[i].config)
  BY SeededValid DEF Init
<1> QED BY <1>1 DEF Init, ProfilesInv, ProfilesAreValid, Rows, At, Idle

\* Every step keeps the stored profiles, and those about to be, valid.
LEMMA ProfilesStep == TypeOK /\ ProfilesInv /\ [Next]_vars => ProfilesInv'
<1> SUFFICES ASSUME TypeOK, ProfilesInv, [Next]_vars PROVE ProfilesInv'
  OBVIOUS
<1>1. ASSUME profiles' = profiles,
             \A r \in Requests : At(r, "update")' => req'[r] = req[r]
      PROVE  ProfilesInv'
  BY <1>1 DEF ProfilesInv, ProfilesAreValid, Rows, At, Idle
<1>2. CASE DeleteSecret \/ UNCHANGED vars
  BY <1>1, <1>2 DEF DeleteSecret, vars
<1>3. CASE Create
  <2>1. PICK i \in Ids, adapter \in Offered, c \in Configs :
          /\ Valid(adapter, c)
          /\ profiles' = [profiles EXCEPT ![i] = [adapter |-> adapter, config |-> c]]
    BY <1>3 DEF Create
  <2>2. req' = req
    BY <1>3 DEF Create
  <2>3. ASSUME NEW j \in Rows' PROVE Valid(profiles'[j].adapter, profiles'[j].config)
    <3>1. CASE j = i
      BY <2>1, <3>1 DEF TypeOK
    <3>2. CASE j # i
      BY <2>1, <2>3, <3>2 DEF TypeOK, Rows, ProfilesInv, ProfilesAreValid
    <3> QED BY <3>1, <3>2
  <2> QED BY <2>2, <2>3 DEF ProfilesInv, ProfilesAreValid, At, Idle
<1>4. CASE Restart
  <2>1. \A i \in Ids : profiles'[i] \notin {Unused, Gone}
                       => Valid(profiles'[i].adapter, profiles'[i].config)
    BY <1>4, SeededValid DEF Restart, TypeOK, ProfilesInv, ProfilesAreValid, Rows
  <2>2. \A r \in Requests : req'[r] = Nothing
    BY <1>4 DEF Restart
  <2> QED BY <2>1, <2>2 DEF ProfilesInv, ProfilesAreValid, Rows, At, Idle
<1>5. ASSUME NEW r \in Requests, PutRead(r) \/ RotateRead(r) \/ DeleteRead(r)
      PROVE  ProfilesInv'
  <2>1. req'[r].op # "update"
    BY <1>5 DEF PutRead, RotateRead, DeleteRead, Go, TypeOK
  <2>2. profiles' = profiles /\ \A q \in Requests : q # r => req'[q] = req[q]
    BY <1>5 DEF PutRead, RotateRead, DeleteRead, Go, TypeOK
  <2> QED BY <1>1, <2>1, <2>2 DEF At
<1>6. ASSUME NEW r \in Requests, PutWrite(r) \/ RotateWrite(r) PROVE ProfilesInv'
  BY <1>1, <1>6, DoneLeaves DEF PutWrite, RotateWrite
<1>7. ASSUME NEW r \in Requests, UpdateRead(r) PROVE ProfilesInv'
  <2>1. Valid(req'[r].next.adapter, req'[r].next.config)
    BY <1>7 DEF UpdateRead, Go, TypeOK
  <2>2. profiles' = profiles /\ \A q \in Requests : q # r => req'[q] = req[q]
    BY <1>7 DEF UpdateRead, Go, TypeOK
  <2> QED BY <2>1, <2>2 DEF ProfilesInv, ProfilesAreValid, Rows, At, Idle
<1>8. ASSUME NEW r \in Requests, UpdateWrite(r) PROVE ProfilesInv'
  <2>1. Valid(req[r].next.adapter, req[r].next.config)
    BY <1>8 DEF UpdateWrite, ProfilesInv
  <2>2. ASSUME NEW i \in Rows' PROVE Valid(profiles'[i].adapter, profiles'[i].config)
    BY <1>8, <2>1, <2>2 DEF UpdateWrite, Updated, TypeOK, Rows, ProfilesInv, ProfilesAreValid
  <2>3. \A q \in Requests : At(q, "update")' => req'[q] = req[q] /\ At(q, "update")
    BY <1>8, DoneLeaves DEF UpdateWrite
  <2> QED BY <2>2, <2>3 DEF ProfilesInv, ProfilesAreValid
<1>9. ASSUME NEW r \in Requests, DeleteWrite(r) PROVE ProfilesInv'
  <2>1. ASSUME NEW i \in Rows' PROVE Valid(profiles'[i].adapter, profiles'[i].config)
    BY <1>9, <2>1 DEF DeleteWrite, TypeOK, Rows, ProfilesInv, ProfilesAreValid
  <2>2. \A q \in Requests : At(q, "update")' => req'[q] = req[q] /\ At(q, "update")
    BY <1>9, DoneLeaves DEF DeleteWrite
  <2> QED BY <2>1, <2>2 DEF ProfilesInv, ProfilesAreValid
<1> QED
  BY <1>2, <1>3, <1>4, <1>5, <1>6, <1>7, <1>8, <1>9 DEF Next

\* Validation cannot be got around: not by updates that meet, nor by a
\* restart, nor by the profile an emptied table is given.
THEOREM ProfilesStayValid == Spec => []ProfilesAreValid
<1>1. ProfilesInv => ProfilesAreValid
  BY DEF ProfilesInv
<1> QED BY <1>1, TypeInit, TypeStep, ProfilesInit, ProfilesStep, PTL DEF Spec

-----------------------------------------------------------------------------
(* The last local profile.                                                 *)

\* No deletion is in flight at first.
LEMMA DeletionsInit == Init => DeletionsInv
BY DEF Init, DeletionsInv, At, Idle

\* A deletion of the only local profile does not pass its check.
LEMMA SpareIsNotLast ==
  ASSUME NEW i \in Rows, Spare(i)
  PROVE  Locals # {i}
<1>1. Cardinality({i}) = 1
  BY FS_Singleton
<1> QED BY <1>1 DEF Spare

\* What a deletion has counted stays with it until it writes.
LEMMA DeletionsStep == TypeOK /\ DeletionsInv /\ [Next]_vars => DeletionsInv'
<1> SUFFICES ASSUME TypeOK, DeletionsInv, [Next]_vars PROVE DeletionsInv'
  OBVIOUS
<1>1. ASSUME \A r \in Requests : At(r, "delete")' => req'[r] = req[r]
      PROVE  DeletionsInv'
  BY <1>1 DEF DeletionsInv, At, Idle
<1>2. CASE DeleteSecret \/ Create \/ UNCHANGED vars
  BY <1>1, <1>2 DEF DeleteSecret, Create, vars
<1>3. CASE Restart
  BY <1>1, <1>3 DEF Restart, At, Idle
<1>4. ASSUME NEW r \in Requests, PutRead(r) \/ RotateRead(r) \/ UpdateRead(r)
      PROVE  DeletionsInv'
  <2>1. req'[r].op # "delete"
    BY <1>4 DEF PutRead, RotateRead, UpdateRead, Go, TypeOK
  <2>2. \A q \in Requests : q # r => req'[q] = req[q]
    BY <1>4 DEF PutRead, RotateRead, UpdateRead, Go, TypeOK
  <2> QED BY <1>1, <2>1, <2>2 DEF At
<1>5. ASSUME NEW r \in Requests,
             PutWrite(r) \/ RotateWrite(r) \/ UpdateWrite(r) \/ DeleteWrite(r)
      PROVE  DeletionsInv'
  BY <1>1, <1>5, DoneLeaves DEF PutWrite, RotateWrite, UpdateWrite, DeleteWrite
<1>6. ASSUME NEW r \in Requests, DeleteRead(r) PROVE DeletionsInv'
  <2>1. req'[r].locals # {req'[r].id}
    BY <1>6, SpareIsNotLast DEF DeleteRead, Go, TypeOK
  <2>2. \A q \in Requests : q # r => req'[q] = req[q]
    BY <1>6 DEF DeleteRead, Go, TypeOK
  <2> QED BY <2>1, <2>2 DEF DeletionsInv, At, Idle
<1> QED
  BY <1>2, <1>3, <1>4, <1>5, <1>6 DEF Next

\* The last local profile goes only with an update of its adapter or with a
\* deletion whose count had been overtaken.
THEOREM LastLocalStays == Spec => LastLocalIsKept
<1>1. TypeOK /\ DeletionsInv /\ [Next]_vars =>
        (Locals # {} /\ Locals' = {} =>
           \E r \in Requests : UpdateWrite(r) \/ (DeleteWrite(r) /\ req[r].locals # Locals))
  <2> SUFFICES ASSUME TypeOK, DeletionsInv, [Next]_vars, Locals # {}, Locals' = {},
                      \A r \in Requests :
                        ~UpdateWrite(r) /\ (DeleteWrite(r) => req[r].locals = Locals)
               PROVE  FALSE
    OBVIOUS
  <2>1. PICK i \in Ids : profiles[i] \notin {Unused, Gone} /\ profiles[i].adapter = "local"
    BY DEF Locals, Rows
  <2>2. ASSUME profiles' = profiles PROVE FALSE
    BY <2>1, <2>2 DEF Locals, Rows
  <2>3. ASSUME profiles'[i] = profiles[i] PROVE FALSE
    BY <2>1, <2>3 DEF Locals, Rows
  <2>4. CASE Create
    BY <2>1, <2>3, <2>4 DEF Create, TypeOK
  <2>5. CASE Restart
    BY <2>1, <2>2, <2>5, SeededTable DEF Restart, TypeOK
  <2>6. ASSUME NEW r \in Requests, DeleteWrite(r) PROVE FALSE
    <3>1. req[r].locals = Locals /\ Locals # {req[r].id}
      BY <2>6 DEF DeleteWrite, DeletionsInv
    <3>2. PICK j \in Locals : j # req[r].id
      BY <3>1
    <3>3. profiles'[j] = profiles[j]
      BY <2>6, <3>2 DEF DeleteWrite, TypeOK, Locals, Rows
    <3> QED BY <3>2, <3>3 DEF Locals, Rows
  <2> QED
    BY <2>2, <2>4, <2>5, <2>6
    DEF Next, vars, DeleteSecret, PutRead, PutWrite, RotateRead, RotateWrite, UpdateRead, DeleteRead
<1> QED
  BY <1>1, TypeInit, TypeStep, DeletionsInit, DeletionsStep, PTL DEF Spec, LastLocalIsKept
=============================================================================
