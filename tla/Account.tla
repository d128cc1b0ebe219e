------------------------------- MODULE Account -------------------------------
(***************************************************************************)
(* Accounts and their application profiles: Signup and the onboarding flag *)
(* of GetCurrentUser (endpoints/auth), UpsertJobApplicationProfile and     *)
(* PatchJobApplicationProfile (endpoints/jobapplicationprofile), over the  *)
(* tables user and job_application_profile.                                *)
(*                                                                         *)
(* A signup writes both rows in one transaction.  The profile's handlers   *)
(* read the row and write it back without one: an upsert every column, a   *)
(* patch the columns it brings.                                            *)
(*                                                                         *)
(* A user is the id its row gets, a value the request that brought it.      *)
(* Passwords, tokens and the columns no request brings are left out.       *)
(***************************************************************************)
EXTENDS Naturals, Sequences, FiniteSets

CONSTANTS
    User,         \* ids of rows of user, present or not yet
    Email,
    Legacy,       \* a user from before signups wrote a profile, None: no such
    Column,       \* the profile's columns
    Named,        \* ... which a signup brings: names and e-mail
    Demanded,     \* ... the texts an upsert may not leave blank; a list that
                  \* is "required" may be empty and a date the year one
    Required,     \* ... which onboarding asks for
    Dated,        \* ... which hold a date: date_of_birth
    Request,
    MaxFailures,  \* bound on failing database calls
    Blank,        \* a column without a value
    None

Value   == Request \cup {Blank}
Profile == [Column -> Value]

\* A signup names an e-mail.  The others bring columns, some of them blank.
SignupTask  == [op: {"signup"}, email: Email]
ProfileTask == [op: {"upsert", "patch"}, by: User, columns: SUBSET Column,
                blanks: SUBSET Column]

ASSUME ConstantsAssumption ==
    /\ Legacy \in User \cup {None}
    /\ Named \subseteq Demanded
    /\ Demanded \subseteq Column
    /\ Required \subseteq Column
    /\ Dated \subseteq Column
    /\ Named # {}
    /\ MaxFailures \in Nat
    /\ None \notin User \cup Email
    /\ None \notin SignupTask \cup ProfileTask
    /\ Blank \notin Request

VARIABLES
    email,     \* committed rows of user, None: no row
    profiles,  \* committed profiles of each user, by primary key
    pc,        \* where each request stands
    task,      \* what each asks for
    tx,        \* the user row of an open signup's transaction
    read,      \* the profile a request has read
    failures,
    brought    \* history: for each user the last value brought to a column

vars == <<email, profiles, pc, task, tx, read, failures, brought>>

TypeOK ==
    /\ email \in [User -> Email \cup {None}]
    /\ profiles \in [User -> Seq(Profile)]
    /\ pc \in [Request -> {"idle", "lookup", "user", "profile", "commit", "find",
                           "create", "save", "patch", "created", "done"}]
    /\ task \in [Request -> SignupTask \cup ProfileTask \cup {None}]
    /\ tx \in [Request -> User \cup {None}]
    /\ read \in [Request -> Profile \cup {None}]
    /\ failures \in 0..MaxFailures
    /\ brought \in [User -> Profile]

Empty == [c \in Column |-> Blank]

Init ==
    /\ \E e \in Email : email = [u \in User |-> IF u = Legacy THEN e ELSE None]
    /\ profiles = [u \in User |-> <<>>]
    /\ pc = [r \in Request |-> "idle"]
    /\ task = [r \in Request |-> None]
    /\ tx = [r \in Request |-> None]
    /\ read = [r \in Request |-> None]
    /\ failures = 0
    /\ brought = [u \in User |-> Empty]

-----------------------------------------------------------------------------
Step(r, from, to) == pc[r] = from /\ pc' = [pc EXCEPT ![r] = to]

Is(r, op) == task[r] # None /\ task[r].op = op

Exists(u) == email[u] # None

Over(row, columns, blanks, r) ==
    [c \in Column |-> IF c \in blanks THEN Blank
                      ELSE IF c \in columns THEN r ELSE row[c]]

\* What a request brings, over the values of a row; what a signup brings.
Brings(r, row) == Over(row, task[r].columns, task[r].blanks, r)
FirstOfNamed(r) == [c \in Named |-> r]
FirstProfile(r) == Over(Empty, Named, {}, r)

-----------------------------------------------------------------------------
(* Signup.                                                                 *)

Taken(e) == \E u \in User : email[u] = e

\* The unique index on the committed rows.
Indexed(e) == \E u \in User : email[u] = e

\* An e-mail that is taken is refused before anything is written ...
SignupLookup(r) ==
    \E e \in Email :
        /\ Step(r, "idle", IF Taken(e) THEN "done" ELSE "user")
        /\ task' = [task EXCEPT ![r] = [op |-> "signup", email |-> e]]
        /\ UNCHANGED <<email, profiles, tx, read, failures, brought>>

\* ... and by the unique index, which waits for other transactions that have
\* inserted the same e-mail.
CreateUser(r) ==
    LET e == task[r].email IN
    /\ pc[r] = "user"
    /\ \A s \in Request \ {r} : Is(s, "signup") /\ task[s].email = e => tx[s] = None
    /\ IF Indexed(e)
       THEN Step(r, "user", "done") /\ UNCHANGED tx
       ELSE /\ Step(r, "user", "profile")
            /\ \E u \in User :
                   /\ ~Exists(u)
                   /\ \A s \in Request : tx[s] # u
                   /\ tx' = [tx EXCEPT ![r] = u]
    /\ UNCHANGED <<email, profiles, task, read, failures, brought>>

CreateProfile(r) ==
    /\ Step(r, "profile", "commit")
    /\ UNCHANGED <<email, profiles, task, tx, read, failures, brought>>

Committed(r) ==
    LET u == tx[r] IN
    /\ email' = [email EXCEPT ![u] = task[r].email]
    /\ profiles' = [profiles EXCEPT ![u] = Append(@, FirstProfile(r))]
    /\ brought' = [brought EXCEPT ![u] = FirstProfile(r)]

Commit(r) ==
    /\ Step(r, "commit", "created")
    /\ Committed(r)
    /\ tx' = [tx EXCEPT ![r] = None]
    /\ UNCHANGED <<task, read, failures>>

-----------------------------------------------------------------------------
(* The profile.                                                            *)

\* What buildProfileUpdateMap takes over: everything but the date.
UpdateMap(columns) == columns \ Dated

\* An authenticated request arrives.  An upsert brings every column, the ones
\* it does not mention as blank, which the demanded ones may not be.  A patch
\* may blank what it names; it is answered 400 when the update map is empty.
Arrive(r) ==
    \E t \in ProfileTask :
        /\ Exists(t.by)
        /\ t.blanks \subseteq t.columns
        /\ t.op = "upsert" => t.columns = Column /\ t.blanks \cap Demanded = {}
        /\ t.op = "patch" => UpdateMap(t.columns) # {}
        /\ Step(r, "idle", "find")
        /\ task' = [task EXCEPT ![r] = t]
        /\ UNCHANGED <<email, profiles, tx, read, failures, brought>>

\* The row is looked for.  Without one, an upsert creates it and a patch is
\* answered 404.
Find(r) ==
    LET rows == profiles[task[r].by] IN
    /\ Step(r, "find",
            IF Is(r, "patch") THEN IF rows = <<>> THEN "done" ELSE "patch"
            ELSE IF rows = <<>> THEN "create" ELSE "save")
    /\ read' = IF rows = <<>> THEN read ELSE [read EXCEPT ![r] = Head(rows)]
    /\ UNCHANGED <<email, profiles, task, tx, failures, brought>>

NoIndex(u) == FALSE

\* The unique index on id_user.
HasProfile(u) == profiles[u] # <<>>

\* An upsert that found nothing creates the row, unless one is there by now.
Create(r) ==
    LET u == task[r].by IN
    /\ Step(r, "create", "done")
    /\ IF HasProfile(u)
       THEN UNCHANGED <<profiles, brought>>
       ELSE /\ profiles' = [profiles EXCEPT ![u] = Append(@, Brings(r, Empty))]
            /\ brought' = [brought EXCEPT ![u] = Brings(r, Empty)]
    /\ UNCHANGED <<email, task, tx, read, failures>>

\* An upsert writes every column of the row it found.
Save(r) ==
    LET u == task[r].by IN
    /\ Step(r, "save", "done")
    /\ profiles' = [profiles EXCEPT ![u][1] = Brings(r, read[r])]
    /\ brought' = [brought EXCEPT ![u] = Brings(r, @)]
    /\ UNCHANGED <<email, task, tx, read, failures>>

WholeRow(r) == Brings(r, read[r])

\* Updates with a map: the columns it names, over the row as it is now.
PatchedRow(r) == Brings(r, profiles[task[r].by][1])

Patch(r) ==
    LET u == task[r].by IN
    /\ Step(r, "patch", "done")
    /\ profiles' = [profiles EXCEPT ![u][1] = PatchedRow(r)]
    /\ brought' = [brought EXCEPT ![u] = Brings(r, @)]
    /\ UNCHANGED <<email, task, tx, read, failures>>

-----------------------------------------------------------------------------
\* A call fails and the request ends; a transaction is rolled back, or was
\* committed although the answer got lost.
Fails(r) ==
    /\ \E place \in {"user", "profile", "commit", "find", "create", "save", "patch"} :
           Step(r, place, "done")
    /\ failures < MaxFailures
    /\ failures' = failures + 1
    /\ \/ UNCHANGED <<email, profiles, brought>>
       \/ pc[r] = "commit" /\ Committed(r)
    /\ tx' = [tx EXCEPT ![r] = None]
    /\ UNCHANGED <<task, read>>

Next == \E r \in Request :
            \/ SignupLookup(r) \/ CreateUser(r) \/ CreateProfile(r) \/ Commit(r)
            \/ Arrive(r) \/ Find(r) \/ Create(r) \/ Save(r) \/ Patch(r)
            \/ Fails(r)

Spec == Init /\ [][Next]_vars

-----------------------------------------------------------------------------
(* Properties.                                                             *)

\* An account is whole whenever it can be seen: its e-mail is nobody else's
\* and it has exactly one profile, at whatever point signups for one e-mail
\* overlap or fail and upserts for a user without a profile meet.
\* (Signup's transaction; the unique indexes on email and id_user.)
AccountsAreWhole ==
    \A u \in User :
        /\ \A v \in User : Exists(u) /\ email[u] = email[v] => u = v
        /\ Len(profiles[u]) <= 1
        /\ profiles[u] # <<>> => Exists(u)
        /\ Exists(u) /\ u # Legacy => profiles[u] # <<>>

\* Every column has the value last brought to it: patches of different columns
\* that overlap, with each other or with an upsert, do not undo each other.
\* (PatchJobApplicationProfile: Updates with a map, not Save.)
ColumnsKeepWhatWasBrought ==
    \A u \in User : profiles[u] # <<>> => profiles[u][1] = brought[u]

\* The user row of an open transaction collides with nothing: neither with
\* that of another one nor with what is committed.
OpenSignup(r) ==
    /\ pc[r] \in {"user", "profile", "commit"} => task[r] \in SignupTask
    /\ tx[r] # None <=> pc[r] \in {"profile", "commit"}
    /\ tx[r] # None =>
           /\ ~Exists(tx[r]) /\ ~Taken(task[r].email)
           /\ \A s \in Request \ {r} :
                  tx[s] # None => tx[s] # tx[r] /\ task[s].email # task[r].email

OpenSignups == \A r \in Request : OpenSignup(r)

\* A request about a profile is of an account there is, and what it is to
\* write is there; an upsert brings every column.
ProfileRequest(r) ==
    pc[r] \in {"find", "create", "save", "patch"} =>
        /\ task[r] \in ProfileTask
        /\ Exists(task[r].by)
        /\ task[r].op = "upsert" => task[r].columns = Column
        /\ pc[r] = "save" => task[r].op = "upsert"
        /\ pc[r] \in {"save", "patch"} => profiles[task[r].by] # <<>>

ProfileRequests == \A r \in Request : ProfileRequest(r)

\* The conjuncts that are inductive together.
IndInv ==
    /\ TypeOK
    /\ OpenSignups
    /\ ProfileRequests
    /\ AccountsAreWhole
    /\ ColumnsKeepWhatWasBrought

\* isOnboardingComplete
OnboardingComplete(u) ==
    profiles[u] # <<>> /\ \A c \in Required : profiles[u][1][c] # Blank

\* What a step may do to a user who has completed the onboarding.
BlankReopens ==
    \A u \in User :
        OnboardingComplete(u) /\ ~OnboardingComplete(u)' =>
            \E r \in Request : /\ pc[r] \in {"save", "patch"} /\ pc'[r] = "done"
                               /\ task[r].by = u
                               /\ task[r].blanks \cap Required # {}

\* A user who has completed onboarding is sent through it again only by a
\* request that brought a blank for a required column; nothing else, however
\* old the row it has read, takes the completion back.
\* (isOnboardingComplete over the columns the two handlers write.)
OnlyBlanksReopenOnboarding == [][BlankReopens]_vars
=============================================================================
