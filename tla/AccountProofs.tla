---------------------------- MODULE AccountProofs ----------------------------
(***************************************************************************)
(* Proofs about Account, for any number of users, e-mails, columns,        *)
(* requests and failures: IndInv is inductive, hence its conjuncts are     *)
(* invariants, and only a blank that was asked for reopens the onboarding. *)
(***************************************************************************)
EXTENDS Account, SequenceTheorems, TLAPS

USE DEF Step, Exists

-----------------------------------------------------------------------------
(* The operators.                                                          *)

\* Columns laid over a profile make a profile.
LEMMA OverType ==
    ASSUME NEW r \in Request, NEW columns, NEW blanks, NEW row,
           \A c \in Column \ (columns \cup blanks) : row[c] \in Value
    PROVE  Over(row, columns, blanks, r) \in Profile
<1> QED  BY DEF Over, Profile, Value

\* Writing the first of some rows changes this row only.
LEMMA FirstRow ==
    ASSUME NEW rows \in Seq(Profile), rows # <<>>, NEW row \in Profile
    PROVE  /\ [rows EXCEPT ![1] = row] \in Seq(Profile)
           /\ [rows EXCEPT ![1] = row] # <<>>
           /\ Len([rows EXCEPT ![1] = row]) = Len(rows)
           /\ [rows EXCEPT ![1] = row][1] = row
<1>1. 1 \in 1..Len(rows)
  BY EmptySeq
<1>2. /\ [rows EXCEPT ![1] = row] \in Seq(Profile)
      /\ Len([rows EXCEPT ![1] = row]) = Len(rows)
      /\ [rows EXCEPT ![1] = row][1] = row
  BY <1>1, ExceptSeq
<1>3. [rows EXCEPT ![1] = row] # <<>>
  BY <1>1, <1>2, EmptySeq
<1> QED  BY <1>2, <1>3

\* Appending to no row makes one.
LEMMA OnlyRow ==
    ASSUME NEW row \in Profile
    PROVE  /\ Append(<<>>, row) \in Seq(Profile)
           /\ Append(<<>>, row) # <<>>
           /\ Len(Append(<<>>, row)) <= 1
           /\ Append(<<>>, row)[1] = row
<1> QED  OBVIOUS

\* A step moves one request.
LEMMA Moved ==
    ASSUME TypeOK, NEW r \in Request, NEW place, pc' = [pc EXCEPT ![r] = place]
    PROVE  /\ pc'[r] = place
           /\ \A q \in Request \ {r} : pc'[q] = pc[q]
<1> QED  BY DEF TypeOK

-----------------------------------------------------------------------------
LEMMA InitIndInv == Init => IndInv
<1> SUFFICES ASSUME Init PROVE IndInv
  OBVIOUS
<1>1. TypeOK
  <2>1. Empty \in Profile
    BY DEF Empty, Profile, Value
  <2>2. email \in [User -> Email \cup {None}]
    BY DEF Init
  <2> QED  BY <2>1, <2>2, ConstantsAssumption DEF Init, TypeOK
<1>2. OpenSignups /\ ProfileRequests /\ ColumnsKeepWhatWasBrought
  BY DEF Init, OpenSignups, OpenSignup, ProfileRequests, ProfileRequest,
         ColumnsKeepWhatWasBrought
<1>3. AccountsAreWhole
  BY DEF Init, AccountsAreWhole
<1> QED  BY <1>1, <1>2, <1>3 DEF IndInv

-----------------------------------------------------------------------------
(* A signup.                                                               *)

\* Until the commit nobody sees anything of it.
LEMMA SignupKeeps ==
    ASSUME IndInv, NEW r \in Request,
           SignupLookup(r) \/ CreateUser(r) \/ CreateProfile(r)
    PROVE  IndInv'
<1> USE DEF IndInv
<1>1. UNCHANGED <<email, profiles, read, failures, brought>>
  BY DEF SignupLookup, CreateUser, CreateProfile
<1>2. AccountsAreWhole' /\ ColumnsKeepWhatWasBrought'
  BY <1>1 DEF AccountsAreWhole, ColumnsKeepWhatWasBrought
<1>3. CASE SignupLookup(r)
  <2>1. PICK e \in Email, place \in {"user", "done"} :
            /\ pc[r] = "idle" /\ pc' = [pc EXCEPT ![r] = place]
            /\ task' = [task EXCEPT ![r] = [op |-> "signup", email |-> e]]
            /\ tx' = tx
    BY <1>3 DEF SignupLookup
  <2>2. [op |-> "signup", email |-> e] \in SignupTask
    BY DEF SignupTask
  <2>3. /\ task'[r] \in SignupTask /\ tx[r] = None
        /\ \A q \in Request \ {r} : task'[q] = task[q]
    BY <2>1, <2>2 DEF TypeOK, OpenSignups, OpenSignup
  <2>4. TypeOK'
    BY <1>1, <2>1, <2>2 DEF TypeOK
  <2>5. OpenSignups'
    BY <1>1, <2>1, <2>3, Moved DEF OpenSignups, OpenSignup, Taken
  <2>6. ProfileRequests'
    BY <1>1, <2>1, <2>3, Moved DEF ProfileRequests, ProfileRequest
  <2> QED  BY <1>2, <2>4, <2>5, <2>6
<1>4. CASE CreateUser(r)
  <2>1. pc[r] = "user" /\ task' = task /\ task[r] \in SignupTask
    BY <1>4 DEF CreateUser, OpenSignups, OpenSignup
  <2>2. CASE pc' = [pc EXCEPT ![r] = "done"] /\ tx' = tx
    <3>1. TypeOK'
      BY <1>1, <2>1, <2>2 DEF TypeOK
    <3>2. OpenSignups'
      BY <1>1, <2>1, <2>2, Moved DEF OpenSignups, OpenSignup, Taken
    <3>3. ProfileRequests'
      BY <1>1, <2>1, <2>2, Moved DEF ProfileRequests, ProfileRequest
    <3> QED  BY <1>2, <3>1, <3>2, <3>3
  <2>3. CASE ~Indexed(task[r].email)
    <3>1. PICK u \in User : /\ pc' = [pc EXCEPT ![r] = "profile"]
                            /\ ~Exists(u) /\ \A s \in Request : tx[s] # u
                            /\ tx' = [tx EXCEPT ![r] = u]
      BY <1>4, <2>3 DEF CreateUser
    <3>2. u # None
      BY ConstantsAssumption
    <3>3. /\ tx'[r] = u /\ \A q \in Request \ {r} : tx'[q] = tx[q]
      BY <3>1 DEF TypeOK
    <3>4. \A s \in Request \ {r} :
              tx[s] # None => /\ task[s] \in SignupTask /\ Is(s, "signup")
                              /\ task[s].email # task[r].email
      <4>1. ASSUME NEW s \in Request \ {r}, tx[s] # None
            PROVE  task[s] \in SignupTask /\ Is(s, "signup")
        BY <4>1, ConstantsAssumption DEF OpenSignups, OpenSignup, Is, SignupTask
      <4> QED  BY <1>4, <4>1 DEF CreateUser
    <3>5. ~Taken(task[r].email)
      BY <2>3 DEF Indexed, Taken
    <3>6. TypeOK'
      BY <1>1, <2>1, <3>1 DEF TypeOK
    <3>7. OpenSignups'
      <4>1. pc'[r] = "profile" /\ \A q \in Request \ {r} : pc'[q] = pc[q]
        BY <3>1, Moved
      <4>2. OpenSignup(r)'
        BY <1>1, <2>1, <3>1, <3>2, <3>3, <3>4, <3>5, <4>1 DEF OpenSignup, Taken
      <4>3. ASSUME NEW q \in Request \ {r}
            PROVE  OpenSignup(q)'
        <5>1. OpenSignup(q) /\ tx'[q] = tx[q] /\ pc'[q] = pc[q]
          BY <3>3, <4>1 DEF OpenSignups
        <5>2. tx[q] # None => /\ tx[q] # u /\ task[q].email # task[r].email
                              /\ u # tx[q]
          BY <3>1, <3>4
        <5> QED  BY <1>1, <2>1, <3>3, <5>1, <5>2 DEF OpenSignup, Taken
      <4> QED  BY <4>2, <4>3 DEF OpenSignups
    <3>8. ProfileRequests'
      BY <1>1, <2>1, <3>1, Moved DEF ProfileRequests, ProfileRequest
    <3> QED  BY <1>2, <3>6, <3>7, <3>8
  <2> QED  BY <1>4, <2>2, <2>3 DEF CreateUser
<1>5. CASE CreateProfile(r)
  <2>1. /\ pc[r] = "profile" /\ pc' = [pc EXCEPT ![r] = "commit"]
        /\ task' = task /\ tx' = tx
    BY <1>5 DEF CreateProfile
  <2>2. TypeOK'
    BY <1>1, <2>1 DEF TypeOK
  <2>3. OpenSignups'
    BY <1>1, <2>1, Moved DEF OpenSignups, OpenSignup, Taken
  <2>4. ProfileRequests'
    BY <1>1, <2>1, Moved DEF ProfileRequests, ProfileRequest
  <2> QED  BY <1>2, <2>2, <2>3, <2>4
<1> QED  BY <1>3, <1>4, <1>5

\* The commit makes a whole account, in one step.
LEMMA CommitKeeps ==
    ASSUME IndInv, NEW r \in Request, pc[r] = "commit", Committed(r),
           NEW place \in {"created", "done"}, pc' = [pc EXCEPT ![r] = place],
           tx' = [tx EXCEPT ![r] = None], UNCHANGED <<task, read>>,
           failures' \in 0..MaxFailures
    PROVE  IndInv'
<1> USE DEF IndInv
<1> DEFINE u == tx[r]
<1>1. /\ task[r] \in SignupTask /\ u \in User
      /\ ~Exists(u) /\ ~Taken(task[r].email)
      /\ \A s \in Request \ {r} :
             tx[s] # None => tx[s] # u /\ task[s].email # task[r].email
  BY ConstantsAssumption DEF OpenSignups, OpenSignup, TypeOK
<1>2. task[r].email \in Email /\ task[r].email # None
  BY <1>1, ConstantsAssumption DEF SignupTask
<1>3. FirstProfile(r) \in Profile
  BY OverType DEF FirstProfile, Empty, Value
<1>4. profiles[u] = <<>>
  BY <1>1 DEF AccountsAreWhole
<1> DEFINE p    == FirstProfile(r)
           only == Append(<<>>, p)
<1> HIDE DEF u, p
<1>5. /\ email' = [email EXCEPT ![u] = task[r].email]
      /\ profiles' = [profiles EXCEPT ![u] = only]
      /\ brought' = [brought EXCEPT ![u] = p]
  BY <1>4 DEF Committed, u, p
<1>6. /\ only \in Seq(Profile) /\ only # <<>> /\ Len(only) <= 1 /\ only[1] = p
      /\ p \in Profile
  BY <1>3, OnlyRow DEF p
<1> HIDE DEF only
<1>7. /\ email'[u] = task[r].email /\ profiles'[u] = only /\ brought'[u] = p
      /\ \A v \in User \ {u} : /\ email'[v] = email[v]
                               /\ profiles'[v] = profiles[v]
                               /\ brought'[v] = brought[v]
  BY <1>1, <1>5 DEF TypeOK
<1>8. TypeOK'
  BY <1>1, <1>2, <1>5, <1>6 DEF TypeOK
<1>9. OpenSignups'
  <2>1. tx'[r] = None /\ \A q \in Request \ {r} : tx'[q] = tx[q]
    BY DEF TypeOK
  <2>2. pc'[r] = place /\ \A q \in Request \ {r} : pc'[q] = pc[q]
    BY Moved
  <2>3. OpenSignup(r)'
    BY <1>1, <2>1, <2>2 DEF OpenSignup
  <2>4. ASSUME NEW q \in Request \ {r}
        PROVE  OpenSignup(q)'
    <3>1. OpenSignup(q) /\ tx'[q] = tx[q] /\ pc'[q] = pc[q]
      BY <2>1, <2>2 DEF OpenSignups
    <3>2. ASSUME tx[q] # None
          PROVE  ~Exists(tx[q])' /\ ~Taken(task[q].email)'
      <4>1. tx[q] \in User \ {u} /\ task[q].email # task[r].email
        BY <1>1, <3>2 DEF TypeOK
      <4> QED  BY <1>7, <3>1, <3>2, <4>1 DEF OpenSignup, Taken
    <3> QED  BY <2>1, <3>1, <3>2 DEF OpenSignup
  <2> QED  BY <2>3, <2>4 DEF OpenSignups
<1>10. ProfileRequests'
  BY <1>2, <1>6, <1>7, Moved DEF ProfileRequests, ProfileRequest, ProfileTask
<1>11. AccountsAreWhole'
  <2>1. ASSUME NEW v \in User, NEW w \in User, email'[v] # None,
               email'[v] = email'[w]
        PROVE  v = w
    <3>1. \A x \in User : email[x] # task[r].email
      BY <1>1 DEF Taken
    <3> QED  BY <1>7, <2>1, <3>1 DEF AccountsAreWhole
  <2>2. ASSUME NEW v \in User
        PROVE  /\ Len(profiles'[v]) <= 1
               /\ profiles'[v] # <<>> => email'[v] # None
               /\ email'[v] # None /\ v # Legacy => profiles'[v] # <<>>
    <3>1. CASE v = u
      BY <1>2, <1>6, <1>7, <3>1
    <3>2. CASE v # u
      BY <1>7, <3>2 DEF AccountsAreWhole
    <3> QED  BY <3>1, <3>2
  <2> QED  BY <2>1, <2>2 DEF AccountsAreWhole
<1>12. ColumnsKeepWhatWasBrought'
  BY <1>6, <1>7 DEF ColumnsKeepWhatWasBrought
<1> QED  BY <1>8, <1>9, <1>10, <1>11, <1>12

-----------------------------------------------------------------------------
(* The profile.                                                            *)

\* A request arrives, or finds the row.
LEMMA ArriveKeeps ==
    ASSUME IndInv, NEW r \in Request, Arrive(r) \/ Find(r)
    PROVE  IndInv'
<1> USE DEF IndInv
<1>1. UNCHANGED <<email, profiles, tx, failures, brought>>
  BY DEF Arrive, Find
<1>2. AccountsAreWhole' /\ ColumnsKeepWhatWasBrought'
  BY <1>1 DEF AccountsAreWhole, ColumnsKeepWhatWasBrought
<1>3. CASE Arrive(r)
  <2>1. PICK t \in ProfileTask :
            /\ Exists(t.by)
            /\ t.op = "upsert" => t.columns = Column
            /\ pc[r] = "idle" /\ pc' = [pc EXCEPT ![r] = "find"]
            /\ task' = [task EXCEPT ![r] = t] /\ read' = read
    BY <1>3 DEF Arrive
  <2>2. /\ pc'[r] = "find" /\ \A q \in Request \ {r} : pc'[q] = pc[q]
        /\ task'[r] = t /\ \A q \in Request \ {r} : task'[q] = task[q]
    BY <2>1 DEF TypeOK
  <2>3. TypeOK'
    BY <1>1, <2>1 DEF TypeOK
  <2>4. OpenSignups'
    BY <1>1, <2>1, <2>2 DEF OpenSignups, OpenSignup, Taken
  <2>5. ProfileRequests'
    <3>1. ProfileRequest(r)'
      BY <1>1, <2>1, <2>2 DEF ProfileRequest
    <3>2. ASSUME NEW q \in Request \ {r}
          PROVE  ProfileRequest(q)'
      BY <1>1, <2>2 DEF ProfileRequests, ProfileRequest
    <3> QED  BY <3>1, <3>2 DEF ProfileRequests
  <2> QED  BY <1>2, <2>3, <2>4, <2>5
<1>4. CASE Find(r)
  <2>1. /\ pc[r] = "find" /\ task' = task
        /\ task[r] \in ProfileTask /\ task[r].by \in User
        /\ task[r].op \in {"upsert", "patch"}
    BY <1>4 DEF Find, ProfileRequests, ProfileRequest, ProfileTask
  <2>2. PICK place \in {"done", "patch", "create", "save"} :
            /\ pc' = [pc EXCEPT ![r] = place]
            /\ place \in {"patch", "save"} => profiles[task[r].by] # <<>>
            /\ place = "save" => task[r].op = "upsert"
    BY <1>4, <2>1, ConstantsAssumption DEF Find, Is
  <2>3. pc'[r] = place /\ \A q \in Request \ {r} : pc'[q] = pc[q]
    BY <2>2, Moved
  <2>4. read' \in [Request -> Profile \cup {None}]
    <3>1. ASSUME profiles[task[r].by] # <<>>
          PROVE  Head(profiles[task[r].by]) \in Profile
      BY <2>1, <3>1, HeadTailProperties DEF TypeOK
    <3> QED  BY <1>4, <3>1 DEF Find, TypeOK
  <2>5. TypeOK'
    BY <1>1, <2>1, <2>2, <2>4 DEF TypeOK
  <2>6. OpenSignups'
    BY <1>1, <2>1, <2>3 DEF OpenSignups, OpenSignup, Taken
  <2>7. ProfileRequests'
    BY <1>1, <2>1, <2>2, <2>3 DEF ProfileRequests, ProfileRequest
  <2> QED  BY <1>2, <2>5, <2>6, <2>7
<1> QED  BY <1>3, <1>4

\* An upsert, however old the row it read, and a patch lay what they bring
\* over what was brought before.
LEMMA BringsOverBrought ==
    ASSUME IndInv, NEW r \in Request, Save(r) \/ Patch(r)
    PROVE  /\ task[r] \in ProfileTask
           /\ \E rows \in Seq(Profile), row \in Profile :
                  /\ row = Brings(r, brought[task[r].by])
                  /\ profiles' = [profiles EXCEPT ![task[r].by] = rows]
                  /\ brought' = [brought EXCEPT ![task[r].by] = row]
                  /\ rows # <<>> /\ rows[1] = row
                  /\ Len(rows) = Len(profiles[task[r].by])
<1> USE DEF IndInv
<1> DEFINE u == task[r].by
<1>1. task[r] \in ProfileTask /\ u \in User /\ profiles[u] # <<>>
  BY DEF Save, Patch, ProfileRequests, ProfileRequest, ProfileTask
<1>2. /\ profiles[u] \in Seq(Profile) /\ brought[u] \in Profile
      /\ profiles[u][1] = brought[u]
  BY <1>1 DEF TypeOK, ColumnsKeepWhatWasBrought
<1>3. Brings(r, brought[u]) \in Profile
  BY <1>2, OverType DEF Brings, Profile
<1>4. /\ profiles' = [profiles EXCEPT ![u] =
                          [profiles[u] EXCEPT ![1] = Brings(r, brought[u])]]
      /\ brought' = [brought EXCEPT ![u] = Brings(r, brought[u])]
  <2>1. CASE Save(r)
    <3>1. task[r].columns = Column
      BY <2>1 DEF Save, ProfileRequests, ProfileRequest
    <3>2. Brings(r, read[r]) = Brings(r, brought[u])
      BY <3>1 DEF Brings, Over
    <3> QED  BY <1>1, <2>1, <3>2 DEF Save, TypeOK
  <2>2. CASE Patch(r)
    BY <1>1, <1>2, <2>2 DEF Patch, PatchedRow, TypeOK
  <2> QED  BY <2>1, <2>2
<1> DEFINE row  == Brings(r, brought[u])
           rows == [profiles[u] EXCEPT ![1] = row]
<1>5. /\ rows \in Seq(Profile) /\ rows # <<>> /\ rows[1] = row
      /\ Len(rows) = Len(profiles[u]) /\ row \in Profile
  BY <1>1, <1>2, <1>3, FirstRow
<1>6. row = Brings(r, brought[u])
  OBVIOUS
<1>7. /\ profiles' = [profiles EXCEPT ![u] = rows]
      /\ brought' = [brought EXCEPT ![u] = row]
  BY <1>4
<1> HIDE DEF row, rows
<1> QED  BY <1>1, <1>5, <1>6, <1>7

\* What a write of a request leaves in the first row is what was brought.
LEMMA WriteKeeps ==
    ASSUME IndInv, NEW r \in Request, Create(r) \/ Save(r) \/ Patch(r)
    PROVE  IndInv'
<1> USE DEF IndInv
<1> DEFINE u == task[r].by
           t == task[r]
<1>1. /\ UNCHANGED <<email, task, tx, read, failures>>
      /\ pc[r] \in {"create", "save", "patch"}
      /\ pc' = [pc EXCEPT ![r] = "done"]
  BY DEF Create, Save, Patch
<1>2. t \in ProfileTask /\ u \in User /\ Exists(u)
  BY <1>1 DEF ProfileRequests, ProfileRequest, ProfileTask
<1>3. pc'[r] = "done" /\ \A q \in Request \ {r} : pc'[q] = pc[q]
  BY <1>1, Moved
<1>4. PICK rows \in Seq(Profile), row \in Profile :
          /\ profiles' = [profiles EXCEPT ![u] = rows]
          /\ brought' = [brought EXCEPT ![u] = row]
          /\ rows # <<>> => rows[1] = row
          /\ Len(rows) <= 1
          /\ rows # <<>> \/ rows = profiles[u]
          /\ profiles[u] # <<>> => rows # <<>>
  <2> HIDE DEF u, t
  <2>1. /\ profiles[u] \in Seq(Profile) /\ brought[u] \in Profile
        /\ Len(profiles[u]) <= 1
        /\ profiles[u] # <<>> => profiles[u][1] = brought[u]
    BY <1>2 DEF TypeOK, AccountsAreWhole, ColumnsKeepWhatWasBrought
  <2>2. CASE UNCHANGED <<profiles, brought>>
    BY <1>2, <2>1, <2>2 DEF TypeOK
  <2>3. CASE /\ Create(r) /\ ~HasProfile(u)
    <3>1. Brings(r, Empty) \in Profile
      BY OverType DEF Brings, Empty, Value
    <3>2. /\ profiles' = [profiles EXCEPT ![u] = Append(<<>>, Brings(r, Empty))]
          /\ brought' = [brought EXCEPT ![u] = Brings(r, Empty)]
      BY <2>3 DEF Create, HasProfile, u
    <3> DEFINE row  == Brings(r, Empty)
               rows == Append(<<>>, row)
    <3>3. /\ rows \in Seq(Profile) /\ rows # <<>> /\ Len(rows) <= 1
          /\ rows[1] = row
      BY <3>1, OnlyRow
    <3> HIDE DEF row, rows
    <3>4. row \in Profile
      BY <3>1 DEF row
    <3>5. /\ profiles' = [profiles EXCEPT ![u] = rows]
          /\ brought' = [brought EXCEPT ![u] = row]
      BY <3>2 DEF row, rows
    <3> QED  BY <3>3, <3>4, <3>5
  <2>4. CASE Save(r) \/ Patch(r)
    BY <2>1, <2>4, BringsOverBrought DEF u
  <2> QED  BY <2>2, <2>3, <2>4 DEF Create, u
<1>5. /\ profiles'[u] = rows /\ brought'[u] = row
      /\ \A v \in User \ {u} : /\ profiles'[v] = profiles[v]
                               /\ brought'[v] = brought[v]
  BY <1>2, <1>4 DEF TypeOK
<1>6. TypeOK'
  BY <1>1, <1>2, <1>4 DEF TypeOK
<1>7. OpenSignups'
  BY <1>1, <1>3 DEF OpenSignups, OpenSignup, Taken
<1>8. ProfileRequests'
  <2>1. \A v \in User : profiles[v] # <<>> => profiles'[v] # <<>>
    BY <1>4, <1>5
  <2> QED  BY <1>1, <1>3, <2>1 DEF ProfileRequests, ProfileRequest, ProfileTask
<1>9. AccountsAreWhole'
  <2>1. \A v \in User : /\ Len(profiles'[v]) <= 1
                        /\ profiles[v] # <<>> => profiles'[v] # <<>>
                        /\ profiles'[v] # <<>> => Exists(v)
    BY <1>2, <1>4, <1>5 DEF AccountsAreWhole
  <2> QED  BY <1>1, <2>1 DEF AccountsAreWhole
<1>10. ColumnsKeepWhatWasBrought'
  BY <1>4, <1>5 DEF ColumnsKeepWhatWasBrought
<1> QED  BY <1>6, <1>7, <1>8, <1>9, <1>10

-----------------------------------------------------------------------------
\* A failure ends a request; its transaction is rolled back or committed.
LEMMA FailsKeeps ==
    ASSUME IndInv, NEW r \in Request, Fails(r)
    PROVE  IndInv'
<1> USE DEF IndInv
<1>1. /\ pc' = [pc EXCEPT ![r] = "done"] /\ tx' = [tx EXCEPT ![r] = None]
      /\ UNCHANGED <<task, read>> /\ failures' \in 0..MaxFailures
  BY ConstantsAssumption DEF Fails, TypeOK
<1>2. CASE pc[r] = "commit" /\ Committed(r)
  BY <1>1, <1>2, CommitKeeps
<1>3. CASE UNCHANGED <<email, profiles, brought>>
  <2>1. /\ pc'[r] = "done" /\ tx'[r] = None
        /\ \A q \in Request \ {r} : pc'[q] = pc[q] /\ tx'[q] = tx[q]
    BY <1>1 DEF TypeOK
  <2>2. TypeOK'
    BY <1>1, <1>3 DEF TypeOK
  <2>3. OpenSignups'
    BY <1>1, <1>3, <2>1 DEF OpenSignups, OpenSignup, Taken
  <2>4. ProfileRequests'
    BY <1>1, <1>3, <2>1 DEF ProfileRequests, ProfileRequest
  <2>5. AccountsAreWhole' /\ ColumnsKeepWhatWasBrought'
    BY <1>3 DEF AccountsAreWhole, ColumnsKeepWhatWasBrought
  <2> QED  BY <2>2, <2>3, <2>4, <2>5
<1> QED  BY <1>2, <1>3 DEF Fails

LEMMA StepIndInv == IndInv /\ [Next]_vars => IndInv'
<1> SUFFICES ASSUME IndInv, [Next]_vars PROVE IndInv'
  OBVIOUS
<1>1. CASE UNCHANGED vars
  BY <1>1
  DEF vars, IndInv, TypeOK, OpenSignups, OpenSignup, Taken, ProfileRequests,
      ProfileRequest, AccountsAreWhole, ColumnsKeepWhatWasBrought
<1>2. ASSUME NEW r \in Request, Commit(r)
      PROVE  IndInv'
  BY <1>2, CommitKeeps DEF Commit, IndInv, TypeOK
<1> QED  BY <1>1, <1>2, SignupKeeps, ArriveKeeps, WriteKeeps, FailsKeeps DEF Next

-----------------------------------------------------------------------------
\* The strengthened invariant holds of every behaviour.
\* (Signup, the handlers of the profile and their failures.)
THEOREM Invariance == Spec => []IndInv
<1> QED  BY InitIndInv, StepIndInv, PTL DEF Spec

\* Type correctness: rows, tasks and places are what they may be.
\* (The tables user and job_application_profile and the handlers.)
THEOREM TypeCorrect == Spec => []TypeOK
<1>1. IndInv => TypeOK
  BY DEF IndInv
<1> QED  BY <1>1, Invariance, PTL

\* An account that can be seen has an e-mail of its own and one profile.
\* (Signup's transaction and the unique indexes.)
THEOREM WholeAccounts == Spec => []AccountsAreWhole
<1>1. IndInv => AccountsAreWhole
  BY DEF IndInv
<1> QED  BY <1>1, Invariance, PTL

\* Overlapping patches and upserts undo nothing of each other.
\* (PatchJobApplicationProfile writes the columns it names.)
THEOREM ColumnsKept == Spec => []ColumnsKeepWhatWasBrought
<1>1. IndInv => ColumnsKeepWhatWasBrought
  BY DEF IndInv
<1> QED  BY <1>1, Invariance, PTL

\* Only a request that brings a blank for a required column reopens the
\* onboarding of a user who has completed it.
\* (isOnboardingComplete over what the handlers write.)
THEOREM BlanksReopen == Spec => OnlyBlanksReopenOnboarding
<1>1. ASSUME IndInv, Next, NEW u \in User,
             OnboardingComplete(u), ~OnboardingComplete(u)'
      PROVE  \E r \in Request : /\ pc[r] \in {"save", "patch"} /\ pc'[r] = "done"
                                /\ task[r].by = u
                                /\ task[r].blanks \cap Required # {}
  <2> USE DEF IndInv
  <2>1. profiles[u] # <<>> /\ \A c \in Required : profiles[u][1][c] # Blank
    BY <1>1 DEF OnboardingComplete
  <2>2. profiles'[u] # profiles[u]
    BY <1>1, <2>1 DEF OnboardingComplete
  <2>3. PICK r \in Request : Save(r) \/ Patch(r)
    <3>1. ASSUME NEW r \in Request, pc[r] = "commit", Committed(r)
          PROVE  profiles'[u] = profiles[u]
      <4>1. tx[r] \in User /\ ~Exists(tx[r])
        BY <1>1, <3>1, ConstantsAssumption DEF OpenSignups, OpenSignup, TypeOK
      <4>2. profiles[tx[r]] = <<>>
        BY <1>1, <4>1 DEF AccountsAreWhole
      <4> QED  BY <1>1, <2>1, <3>1, <4>2 DEF Committed, TypeOK
    <3>2. ASSUME NEW r \in Request, Create(r)
          PROVE  profiles'[u] = profiles[u]
      BY <1>1, <2>1, <3>2 DEF Create, HasProfile, TypeOK
    <3> QED  BY <1>1, <2>2, <3>1, <3>2
             DEF Next, SignupLookup, CreateUser, CreateProfile, Commit, Arrive,
                 Find, Fails
  <2>4. /\ task[r] \in ProfileTask
        /\ pc[r] \in {"save", "patch"} /\ pc'[r] = "done"
    BY <1>1, <2>3, BringsOverBrought DEF Save, Patch, TypeOK
  <2>5. PICK rows \in Seq(Profile), row \in Profile :
            /\ row = Brings(r, brought[task[r].by])
            /\ profiles' = [profiles EXCEPT ![task[r].by] = rows]
            /\ rows # <<>> /\ rows[1] = row
    BY <1>1, <2>3, BringsOverBrought
  <2>6. task[r].by = u /\ profiles'[u] = rows
    BY <1>1, <2>2, <2>5 DEF TypeOK
  <2>7. PICK c \in Required : row[c] = Blank
    BY <1>1, <2>5, <2>6 DEF OnboardingComplete
  <2>8. brought[u][c] # Blank /\ c \in Column /\ r # Blank
    BY <1>1, <2>1, ConstantsAssumption DEF ColumnsKeepWhatWasBrought
  <2>9. c \in task[r].blanks
    BY <2>5, <2>6, <2>7, <2>8 DEF Brings, Over
  <2> QED  BY <2>4, <2>6, <2>9
<1>2. IndInv /\ [Next]_vars => [BlankReopens]_vars
  BY <1>1 DEF BlankReopens
<1> QED  BY <1>2, Invariance, PTL DEF Spec, OnlyBlanksReopenOnboarding
=============================================================================
