---------------------------- MODULE UiNode_proofs -----------------------------
(***************************************************************************)
(* Proofs about ui-node: a confirmed password leaves the file of users     *)
(* only for one of the causes that UsersStore names, for any users,        *)
(* requests at the same time and faults; the run list keeps its types;     *)
(* then the types and the safety of all components together, as MCUiNode   *)
(* composes them.                                                          *)
(***************************************************************************)
EXTENDS MCUiNode, DevicesPage_proofs, Map_proofs

-----------------------------------------------------------------------------
(* The file of users.                                                      *)

Operations ==
  [kind : {"none", "change", "reset"}, pc : {"none", "load", "verify", "empty", "write", "answer"},
   user : Users, given : 0 .. NoPassword, new : 0 .. MaxPasswords, read : Entries,
   alone : BOOLEAN, old : BOOLEAN]

Sound(o) == o \in Operations /\ (o.kind = "none" <=> o.pc = "none")

UsersInv ==
  /\ userFile \in [text : {"empty", "users", "torn"}, users : Entries]
  /\ op = [r \in Handlers |-> op[r]] /\ \A r \in Handlers : Sound(op[r])
  /\ passwords \in 0 .. MaxPasswords /\ userFaults \in 0 .. MaxUserFaults
  /\ acked \in Entries /\ excused \subseteq Users

LEMMA NoPasswordIsEntry ==
  /\ NoPassword \in 0 .. NoPassword /\ 0 \in 0 .. NoPassword /\ 0 .. MaxPasswords \subseteq 0 .. NoPassword
  /\ 0 \in 0 .. MaxPasswords /\ 0 \in 0 .. MaxUserFaults
  /\ NoEntries \in Entries /\ EnvEntries \in Entries
<1>1. /\ NoPassword \in 0 .. NoPassword /\ 0 \in 0 .. NoPassword /\ 0 .. MaxPasswords \subseteq 0 .. NoPassword
      /\ 0 \in 0 .. MaxPasswords /\ 0 \in 0 .. MaxUserFaults
  BY UsersAssumption DEF NoPassword
<1> QED BY <1>1 DEF NoEntries, EnvEntries, Entries

LEMMA NoOpIsSound == Sound(NoOp) /\ NoOp.kind = "none" /\ NoOp.pc = "none"
<1>1. (CHOOSE u \in Users : TRUE) \in Users
  BY UsersAssumption
<1> QED BY <1>1, NoPasswordIsEntry DEF NoOp, Operations, Sound

LEMMA LoadedIsEntries ==
  ASSUME UsersInv PROVE Loaded(userFile) \in Entries
BY NoPasswordIsEntry DEF Loaded, UsersInv

LEMMA UsersInitType == UsersInit => UsersInv
<1>1. EmptyFile \in [text : {"empty", "users", "torn"}, users : Entries]
  BY NoPasswordIsEntry DEF EmptyFile
<1> QED BY <1>1, NoPasswordIsEntry, NoOpIsSound DEF UsersInit, UsersInv

\* What the steps do to one request, and that they leave the others alone.
RequestMoves(r) == op' = [op EXCEPT ![r] = op'[r]]

LEMMA GoesToIs ==
  ASSUME UsersInv, NEW r \in Handlers, op[r].pc # "none",
         NEW c \in {"load", "verify", "empty", "write", "answer"}, GoesTo(r, c)
  PROVE  RequestMoves(r) /\ Sound(op'[r]) /\ op'[r] = [op[r] EXCEPT !.pc = c]
<1>1. op' = [op EXCEPT ![r] = [op[r] EXCEPT !.pc = c]] /\ op'[r] = [op[r] EXCEPT !.pc = c]
  BY DEF GoesTo, UsersInv
<1>2. Sound([op[r] EXCEPT !.pc = c])
  BY DEF UsersInv, Sound, Operations
<1> QED BY <1>1, <1>2 DEF RequestMoves

LEMMA EndsIs ==
  ASSUME UsersInv, NEW r \in Handlers, Ends(r)
  PROVE  RequestMoves(r) /\ Sound(op'[r]) /\ op'[r] = NoOp
BY NoOpIsSound DEF Ends, UsersInv, RequestMoves

LEMMA GoesOnIs ==
  ASSUME UsersInv, NEW r \in Handlers, op[r].pc = "load", NEW users \in Entries, NEW old \in BOOLEAN,
         GoesOnWith(r, users, old)
  PROVE  /\ RequestMoves(r) /\ Sound(op'[r])
         /\ \/ op'[r] = NoOp
            \/ /\ op'[r].pc \in {"verify", "empty"} /\ op'[r].read = users /\ op'[r].old = old
               /\ op'[r].kind = op[r].kind /\ op'[r].user = op[r].user /\ op'[r].alone = op[r].alone
<1> DEFINE c == IF op[r].kind = "change" THEN "verify" ELSE "empty"
           o == [op[r] EXCEPT !.pc = c, !.read = users, !.old = old]
<1>1. CASE Ends(r)
  BY <1>1, EndsIs
<1>2. CASE ~Ends(r)
  <2>0. op' = [op EXCEPT ![r].pc = c, ![r].read = users, ![r].old = old]
    BY <1>2 DEF GoesOnWith
  <2>1. op' = [op EXCEPT ![r] = o]
    BY <2>0 DEF UsersInv
  <2>2. Sound(o) /\ o.pc \in {"verify", "empty"} /\ o.read = users /\ o.old = old
        /\ o.kind = op[r].kind /\ o.user = op[r].user /\ o.alone = op[r].alone
    BY DEF UsersInv, Sound, Operations
  <2> HIDE DEF o
  <2>3. op'[r] = o
    BY <2>1 DEF UsersInv
  <2> QED BY <2>1, <2>2, <2>3 DEF RequestMoves
<1> QED BY <1>1, <1>2

LEMMA PostIs ==
  ASSUME UsersInv, NEW r \in Handlers, NEW kind \in {"change", "reset"}, NEW u \in Users,
         NEW given \in 0 .. NoPassword, PostUser(r, kind, u, given)
  PROVE  /\ op' = [q \in Handlers |-> op'[q]] /\ \A q \in Handlers : Sound(op'[q])
         /\ op[r] = NoOp /\ op'[r].kind = kind /\ op'[r].pc = "load" /\ op'[r].user = u
         /\ op'[r].alone = ~Handled(u)
         /\ \A q \in Handlers \ {r} :
              /\ op'[q] = [op[q] EXCEPT !.alone = op'[q].alone]
              /\ op'[q].alone = (op[q].alone /\ ~Serves(q, u))
<1>0. passwords + 1 \in 0 .. MaxPasswords
  BY UsersAssumption DEF PostUser, UsersInv
<1> DEFINE o == [NoOp EXCEPT !.kind = kind, !.pc = "load", !.user = u, !.given = given,
                             !.new = passwords + 1, !.alone = ~Handled(u)]
<1>1. /\ op' = [q \in Handlers |-> op'[q]] /\ op'[r] = o
      /\ \A q \in Handlers \ {r} : op'[q] = IF Serves(q, u) THEN [op[q] EXCEPT !.alone = FALSE] ELSE op[q]
  BY DEF PostUser
<1>2. Handled(u) \in BOOLEAN /\ \A q \in Handlers : Serves(q, u) \in BOOLEAN
  BY DEF Handled, Serves
<1>3. Sound(o) /\ o.kind = kind /\ o.pc = "load" /\ o.user = u /\ o.alone = ~Handled(u)
  BY <1>0, <1>2, NoOpIsSound DEF Sound, Operations
<1> HIDE DEF o
<1>4. ASSUME NEW q \in Handlers \ {r}
      PROVE  /\ Sound(op'[q]) /\ op'[q] = [op[q] EXCEPT !.alone = op'[q].alone]
             /\ op'[q].alone = (op[q].alone /\ ~Serves(q, u))
  <2>1. Sound(op[q])
    BY <1>4 DEF UsersInv
  <2>2. CASE Serves(q, u)
    <3>1. op'[q] = [op[q] EXCEPT !.alone = FALSE]
      BY <1>1, <1>4, <2>2, Zenon
    <3> QED BY <2>1, <2>2, <3>1 DEF Sound, Operations
  <2>3. CASE ~Serves(q, u)
    <3>1. op'[q] = op[q]
      BY <1>1, <1>4, <2>3, Zenon
    <3> QED BY <2>1, <2>3, <3>1 DEF Sound, Operations
  <2> QED BY <2>2, <2>3
<1>5. op[r] = NoOp
  BY DEF PostUser
<1> QED BY <1>1, <1>3, <1>4, <1>5, Zenon

LEMMA EmptyIs ==
  ASSUME UsersInv, NEW r \in Handlers, EmptyTheFile(r)
  PROVE  /\ op' = [q \in Handlers |-> op'[q]] /\ \A q \in Handlers : Sound(op'[q])
         /\ op'[r] = [op[r] EXCEPT !.pc = "write"]
         /\ \A q \in Handlers \ {r} :
              /\ op'[q] = [op[q] EXCEPT !.old = op'[q].old]
              /\ op[q].pc \in {"verify", "empty", "write"} => op'[q].old
<1>1. /\ op' = [q \in Handlers |-> op'[q]] /\ op'[r] = [op[r] EXCEPT !.pc = "write"]
      /\ \A q \in Handlers \ {r} :
           op'[q] = IF op[q].pc \in {"verify", "empty", "write"} THEN [op[q] EXCEPT !.old = TRUE] ELSE op[q]
  BY DEF EmptyTheFile
<1>2. Sound(op'[r])
  BY <1>1 DEF EmptyTheFile, UsersInv, Sound, Operations
<1>3. ASSUME NEW q \in Handlers \ {r}
      PROVE  /\ Sound(op'[q]) /\ op'[q] = [op[q] EXCEPT !.old = op'[q].old]
             /\ op[q].pc \in {"verify", "empty", "write"} => op'[q].old
  <2>1. Sound(op[q])
    BY <1>3 DEF UsersInv
  <2>2. CASE op[q].pc \in {"verify", "empty", "write"}
    <3>1. op'[q] = [op[q] EXCEPT !.old = TRUE]
      BY <1>1, <1>3, <2>2, Zenon
    <3> QED BY <2>1, <3>1 DEF Sound, Operations
  <2>3. CASE op[q].pc \notin {"verify", "empty", "write"}
    <3>1. op'[q] = op[q]
      BY <1>1, <1>3, <2>3, Zenon
    <3> QED BY <2>1, <2>3, <3>1 DEF Sound, Operations
  <2> QED BY <2>2, <2>3
<1> QED BY <1>1, <1>2, <1>3, Zenon

LEMMA UsersStepType == UsersInv /\ [UsersNext]_usersVars => UsersInv'
<1> SUFFICES ASSUME UsersInv, [UsersNext]_usersVars PROVE UsersInv'
  OBVIOUS
<1>0. ASSUME NEW r \in Handlers, RequestMoves(r), Sound(op'[r])
      PROVE  op' = [q \in Handlers |-> op'[q]] /\ \A q \in Handlers : Sound(op'[q])
  BY <1>0 DEF UsersInv, RequestMoves
<1>a. ASSUME UserFault PROVE userFaults' \in 0 .. MaxUserFaults
  BY <1>a, UsersAssumption DEF UserFault, UsersInv
<1>b. TornFile \in [text : {"empty", "users", "torn"}, users : Entries]
  BY NoPasswordIsEntry DEF TornFile
<1>1. CASE UNCHANGED usersVars
  BY <1>1 DEF usersVars, UsersInv
<1>2. ASSUME NEW r \in Handlers, NEW kind \in {"change", "reset"}, NEW u \in Users, NEW given \in 0 .. NoPassword,
             PostUser(r, kind, u, given)
      PROVE  UsersInv'
  <2>1. op' = [q \in Handlers |-> op'[q]] /\ \A q \in Handlers : Sound(op'[q])
    BY <1>2, PostIs
  <2>2. passwords' \in 0 .. MaxPasswords
    BY <1>2, UsersAssumption DEF PostUser, UsersInv
  <2> QED BY <1>2, <2>1, <2>2 DEF PostUser, UsersInv
<1>3. ASSUME NEW r \in Handlers, ReadUsers(r) PROVE UsersInv'
  <2>1. RequestMoves(r) /\ Sound(op'[r])
    BY <1>3, EndsIs, GoesOnIs, LoadedIsEntries DEF ReadUsers
  <2> QED BY <1>0, <1>3, <2>1 DEF ReadUsers, UsersInv
<1>4. ASSUME NEW r \in Handlers, ReadFails(r) PROVE UsersInv'
  <2>1. RequestMoves(r) /\ Sound(op'[r])
    BY <1>4, GoesOnIs, NoPasswordIsEntry DEF ReadFails
  <2> QED BY <1>0, <1>4, <1>a, <2>1 DEF ReadFails, UsersInv
<1>5. ASSUME NEW r \in Handlers, VerifyCurrent(r) PROVE UsersInv'
  <2>1. RequestMoves(r) /\ Sound(op'[r])
    BY <1>5, EndsIs, GoesToIs DEF VerifyCurrent
  <2> QED BY <1>0, <1>5, <1>a, <2>1 DEF VerifyCurrent, UsersInv
<1>6. ASSUME NEW r \in Handlers, EmptyTheFile(r) PROVE UsersInv'
  <2>1. op' = [q \in Handlers |-> op'[q]] /\ \A q \in Handlers : Sound(op'[q])
    BY <1>6, EmptyIs
  <2>2. userFile' \in [text : {"empty", "users", "torn"}, users : Entries]
    BY <1>6, NoPasswordIsEntry DEF EmptyTheFile, EmptyFile
  <2> QED BY <1>6, <2>1, <2>2 DEF EmptyTheFile, UsersInv
<1>7. ASSUME NEW r \in Handlers, OpenFails(r) PROVE UsersInv'
  BY <1>0, <1>7, <1>a, EndsIs DEF OpenFails, UsersInv
<1>8. ASSUME NEW r \in Handlers, WriteTheFile(r) PROVE UsersInv'
  <2>1. WithChange(r) \in Entries
    BY NoPasswordIsEntry DEF WithChange, UsersInv, Sound, Operations, Entries
  <2>2. RequestMoves(r) /\ Sound(op'[r])
    BY <1>8, GoesToIs DEF WriteTheFile
  <2>3. userFile' \in [text : {"empty", "users", "torn"}, users : Entries] /\ excused' \subseteq Users
    BY <1>8, <1>b, <2>1 DEF WriteTheFile, UsersInv
  <2> QED BY <1>0, <1>8, <2>2, <2>3 DEF WriteTheFile, UsersInv
<1>9. ASSUME NEW r \in Handlers, WriteFails(r) PROVE UsersInv'
  BY <1>0, <1>9, <1>a, <1>b, EndsIs DEF WriteFails, UsersInv
<1>10. ASSUME NEW r \in Handlers, Acknowledge(r) PROVE UsersInv'
  <2>1. acked' \in Entries
    BY <1>10, NoPasswordIsEntry DEF Acknowledge, UsersInv, Entries, Sound, Operations
  <2> QED BY <1>0, <1>10, <2>1, EndsIs DEF Acknowledge, UsersInv
<1>11. CASE UiCrash
  <2>1. acked' \in Entries
    BY <1>11, NoPasswordIsEntry DEF UiCrash, UsersInv, Entries
  <2>2. op' = [q \in Handlers |-> op'[q]] /\ \A q \in Handlers : Sound(op'[q])
    BY <1>11, NoOpIsSound DEF UiCrash
  <2>3. userFile' \in [text : {"empty", "users", "torn"}, users : Entries] /\ excused' \subseteq Users
    BY <1>11, <1>b DEF UiCrash, UsersInv
  <2> QED BY <1>11, <1>a, <2>1, <2>2, <2>3 DEF UiCrash, UsersInv
<1>12. CASE AllConfirmed
  BY <1>1, <1>12 DEF AllConfirmed
<1> QED BY <1>1, <1>2, <1>3, <1>4, <1>5, <1>6, <1>7, <1>8, <1>9, <1>10, <1>11, <1>12 DEF UsersNext

\* The file of users, the requests and what was confirmed are of the kind the code
\* can hold, for any users, requests at the same time and faults.
THEOREM UsersTypeCorrect == UsersSpec => []UsersTypeOK
<1>1. UsersInv => UsersTypeOK
  BY DEF UsersInv, UsersTypeOK, Operations, Sound
<1> QED BY <1>1, UsersInitType, UsersStepType, PTL DEF UsersSpec

-----------------------------------------------------------------------------
(* A lost password has a cause.  What is due to a user is what was         *)
(* confirmed, or is about to be: it is in the file, or in what the only    *)
(* writer has read of it.                                                  *)

Answering(q, u) == op[q].pc = "answer" /\ op[q].user = u

Due(u, p) ==
  \/ \E q \in Handlers : Answering(q, u) /\ op[q].alone /\ p = op[q].new
  \/ acked[u] = p /\ p # NoPassword /\ \A q \in Handlers : ~Answering(q, u)

InFile(u, p) == userFile.text = "users" /\ userFile.users[u] = p

UpToDate(r) == userFile.text # "torn" /\ op[r].read = Loaded(userFile)

NoneLost == Writing = {} => \A u \in Users \ excused : \A p : Due(u, p) => InFile(u, p)

WriterInv ==
  \A r \in Handlers : op[r].pc = "write" /\ ~op[r].old =>
    /\ Writing = {r}
    /\ \A u \in Users \ (excused \cup {op[r].user}) : \A p : Due(u, p) => op[r].read[u] = p

ReaderInv ==
  \A r \in Handlers : op[r].pc \in {"verify", "empty"} /\ ~op[r].old => Writing = {} /\ UpToDate(r)

\* Requests for one user know of one another.
AloneInv == \A q, r \in Handlers : q # r /\ op[q].kind # "none" /\ Serves(r, op[q].user) => ~op[q].alone

LossInv == UsersInv /\ NoneLost /\ WriterInv /\ ReaderInv /\ AloneInv

LEMMA LossInitInv == UsersInit => LossInv
<1> SUFFICES ASSUME UsersInit PROVE LossInv
  OBVIOUS
<1>1. \A r \in Handlers : op[r].pc = "none" /\ op[r].kind = "none"
  BY NoOpIsSound DEF UsersInit
<1>2. \A u \in Users : acked[u] = NoPassword
  BY DEF UsersInit, NoEntries
<1>3. \A u \in Users : \A p : ~Due(u, p)
  BY <1>1, <1>2, Zenon DEF Due, Answering
<1>4. NoneLost
  BY <1>3, Zenon DEF NoneLost
<1> QED BY <1>1, <1>4, UsersInitType DEF LossInv, WriterInv, ReaderInv, AloneInv

\* The steps before the file is opened: a request reads, goes on or ends.
LEMMA BeforeWriting ==
  ASSUME LossInv, UsersInv', NEW r \in Handlers, RequestMoves(r), UNCHANGED <<userFile, acked, excused>>,
         op[r].pc \in {"load", "verify", "empty"},
         \/ op'[r] = NoOp
         \/ /\ op'[r].pc \in {"verify", "empty"}
            /\ op'[r].kind = op[r].kind /\ op'[r].user = op[r].user /\ op'[r].alone = op[r].alone
            /\ op'[r].old \/ (Writing = {} /\ UpToDate(r)')
  PROVE  LossInv'
<1>1. \A q \in Handlers : q # r => op'[q] = op[q]
  BY DEF RequestMoves, LossInv, UsersInv
<1>2. op'[r].pc \in {"none", "verify", "empty"}
  BY NoOpIsSound
<1>3. Writing' = Writing
  BY <1>1, <1>2 DEF Writing
<1>4. \A u : \A p : Due(u, p)' <=> Due(u, p)
  <2>1. \A u : \A q \in Handlers : Answering(q, u)' <=> Answering(q, u)
    BY <1>1, <1>2 DEF Answering
  <2>2. \A u : \A q \in Handlers : Answering(q, u) => op'[q] = op[q]
    BY <1>1, Zenon DEF Answering
  <2> QED BY <2>1, <2>2, Zenon DEF Due
<1>5. NoneLost'
  BY <1>3, <1>4, Zenon DEF LossInv, NoneLost, InFile
<1>6. WriterInv'
  <2> SUFFICES ASSUME NEW q \in Handlers, op'[q].pc = "write", ~op'[q].old
               PROVE  /\ Writing' = {q}
                      /\ \A u \in Users \ (excused' \cup {op'[q].user}) : \A p : Due(u, p)' => op'[q].read[u] = p
    BY DEF WriterInv
  <2>1. op'[q] = op[q]
    BY <1>1, <1>2
  <2>2. Writing = {q} /\ \A u \in Users \ (excused \cup {op[q].user}) : \A p : Due(u, p) => op[q].read[u] = p
    BY <2>1 DEF LossInv, WriterInv
  <2> QED BY <1>3, <1>4, <2>1, <2>2, Zenon
<1>7. ReaderInv'
  <2> SUFFICES ASSUME NEW q \in Handlers, op'[q].pc \in {"verify", "empty"}, ~op'[q].old
               PROVE  Writing' = {} /\ UpToDate(q)'
    BY DEF ReaderInv
  <2>1. CASE q = r
    BY <1>3, <2>1, NoOpIsSound
  <2>2. CASE q # r
    <3>1. op'[q] = op[q] /\ Writing = {} /\ UpToDate(q)
      BY <1>1, <2>2 DEF LossInv, ReaderInv
    <3> QED BY <1>3, <3>1 DEF UpToDate
  <2> QED BY <2>1, <2>2
<1>8. AloneInv'
  <2>1. \A q \in Handlers : op'[q].kind # "none" =>
          op'[q].kind = op[q].kind /\ op'[q].user = op[q].user /\ op'[q].alone = op[q].alone
    BY <1>1, NoOpIsSound
  <2>2. \A q \in Handlers : \A u : Serves(q, u)' => Serves(q, u)
    BY <2>1 DEF Serves
  <2> QED BY <2>1, <2>2, Zenon DEF LossInv, AloneInv
<1> QED BY <1>5, <1>6, <1>7, <1>8, Zenon DEF LossInv

LEMMA PostKeeps ==
  ASSUME LossInv, UsersInv', NEW r \in Handlers, NEW kind \in {"change", "reset"}, NEW u \in Users,
         NEW given \in 0 .. NoPassword, PostUser(r, kind, u, given)
  PROVE  LossInv'
<1>0. UsersInv /\ UNCHANGED <<userFile, acked, excused>>
  BY DEF LossInv, PostUser
<1>1. /\ op[r] = NoOp /\ op'[r].kind = kind /\ op'[r].pc = "load" /\ op'[r].user = u
      /\ op'[r].alone = ~Handled(u)
      /\ \A q \in Handlers \ {r} :
           /\ op'[q] = [op[q] EXCEPT !.alone = op'[q].alone]
           /\ op'[q].alone = (op[q].alone /\ ~Serves(q, u))
  BY <1>0, PostIs
<1>2. \A q \in Handlers \ {r} :
        /\ op'[q].kind = op[q].kind /\ op'[q].pc = op[q].pc /\ op'[q].user = op[q].user
        /\ op'[q].new = op[q].new /\ op'[q].read = op[q].read /\ op'[q].old = op[q].old
  BY <1>0, <1>1 DEF UsersInv, Sound, Operations
<1>3. op[r].pc = "none"
  BY <1>1, NoOpIsSound
<1>4. Writing' = Writing
  BY <1>1, <1>2, <1>3 DEF Writing
<1>5. \A w : \A p : Due(w, p)' => Due(w, p)
  <2>1. \A w : \A q \in Handlers : Answering(q, w)' <=> Answering(q, w)
    BY <1>1, <1>2, <1>3 DEF Answering
  <2>2. \A w : \A q \in Handlers : Answering(q, w) =>
          op'[q].new = op[q].new /\ (op'[q].alone => op[q].alone)
    BY <1>1, <1>2, <1>3, Zenon DEF Answering
  <2> QED BY <1>0, <2>1, <2>2, Zenon DEF Due
<1>6. NoneLost'
  BY <1>0, <1>4, <1>5, Zenon DEF LossInv, NoneLost, InFile
<1>7. WriterInv'
  <2> SUFFICES ASSUME NEW q \in Handlers, op'[q].pc = "write", ~op'[q].old
               PROVE  /\ Writing' = {q}
                      /\ \A w \in Users \ (excused' \cup {op'[q].user}) : \A p : Due(w, p)' => op'[q].read[w] = p
    BY DEF WriterInv
  <2>1. q \in Handlers \ {r}
    BY <1>1
  <2>2. op[q].pc = "write" /\ ~op[q].old /\ op'[q].user = op[q].user /\ op'[q].read = op[q].read
    BY <1>2, <2>1
  <2>3. Writing = {q} /\ \A w \in Users \ (excused \cup {op[q].user}) : \A p : Due(w, p) => op[q].read[w] = p
    BY <2>2 DEF LossInv, WriterInv
  <2> QED BY <1>0, <1>4, <1>5, <2>2, <2>3, Zenon
<1>8. ReaderInv'
  <2> SUFFICES ASSUME NEW q \in Handlers, op'[q].pc \in {"verify", "empty"}, ~op'[q].old
               PROVE  Writing' = {} /\ UpToDate(q)'
    BY DEF ReaderInv
  <2>1. q \in Handlers \ {r}
    BY <1>1
  <2>2. op[q].pc \in {"verify", "empty"} /\ ~op[q].old /\ op'[q].read = op[q].read
    BY <1>2, <2>1
  <2>3. Writing = {} /\ UpToDate(q)
    BY <2>2 DEF LossInv, ReaderInv
  <2> QED BY <1>0, <1>4, <2>2, <2>3 DEF UpToDate
<1>9. AloneInv'
  <2> SUFFICES ASSUME NEW q \in Handlers, NEW s \in Handlers, q # s, op'[q].kind # "none",
                      op'[s].kind # "none", op'[s].user = op'[q].user
               PROVE  ~op'[q].alone
    BY Zenon DEF AloneInv, Serves
  <2>1. CASE q = r
    <3>1. s \in Handlers \ {r} /\ op'[q].user = u
      BY <1>1, <2>1, Zenon
    <3>2. Serves(s, u)
      BY <1>2, <3>1, Zenon DEF Serves
    <3> QED BY <1>1, <2>1, <3>2, Zenon DEF Handled
  <2>2. CASE s = r
    <3>1. q \in Handlers \ {r} /\ op'[q].user = u
      BY <1>1, <2>2, Zenon
    <3>2. Serves(q, u)
      BY <1>2, <3>1, Zenon DEF Serves
    <3> QED BY <1>1, <3>1, <3>2, Zenon
  <2>3. CASE q # r /\ s # r
    <3>1. q \in Handlers \ {r} /\ s \in Handlers \ {r}
      BY <2>3, Zenon
    <3>2. op[q].kind # "none" /\ Serves(s, op[q].user)
      BY <1>2, <3>1, Zenon DEF Serves
    <3>3. ~op[q].alone
      BY <3>2, Zenon DEF LossInv, AloneInv
    <3> QED BY <1>1, <3>1, <3>3, Zenon
  <2> QED BY <2>1, <2>2, <2>3
<1> QED BY <1>6, <1>7, <1>8, <1>9, Zenon DEF LossInv

\* A request that goes on serves the same user, and one that ends serves none.
LEMMA AloneKeeps ==
  ASSUME AloneInv,
         \A q \in Handlers : op'[q].kind # "none" =>
           op'[q].kind = op[q].kind /\ op'[q].user = op[q].user /\ op'[q].alone = op[q].alone
  PROVE  AloneInv'
<1> SUFFICES ASSUME NEW q \in Handlers, NEW s \in Handlers, q # s, op'[q].kind # "none",
                    op'[s].kind # "none", op'[s].user = op'[q].user
             PROVE  ~op'[q].alone
  BY Zenon DEF AloneInv, Serves
<1>1. op[q].kind # "none" /\ op[s].kind # "none" /\ op[s].user = op[q].user
  OBVIOUS
<1>2. ~op[q].alone
  BY <1>1, Zenon DEF AloneInv, Serves
<1> QED BY <1>2, Zenon

LEMMA EmptyKeeps ==
  ASSUME LossInv, UsersInv', NEW r \in Handlers, EmptyTheFile(r)
  PROVE  LossInv'
<1>0. UsersInv /\ op[r].pc = "empty" /\ UNCHANGED <<acked, excused>>
  BY DEF LossInv, EmptyTheFile
<1>1. /\ op'[r] = [op[r] EXCEPT !.pc = "write"]
      /\ \A q \in Handlers \ {r} :
           /\ op'[q] = [op[q] EXCEPT !.old = op'[q].old]
           /\ op[q].pc \in {"verify", "empty", "write"} => op'[q].old
  BY <1>0, EmptyIs
<1>2. /\ op'[r].pc = "write"
      /\ \A q \in Handlers :
           /\ op'[q].kind = op[q].kind /\ op'[q].user = op[q].user /\ op'[q].alone = op[q].alone
           /\ op'[q].new = op[q].new /\ op'[q].read = op[q].read
           /\ q # r => op'[q].pc = op[q].pc
           /\ q = r => op'[q].old = op[q].old
  BY <1>0, <1>1 DEF UsersInv, Sound, Operations
<1>3. \A u : \A p : Due(u, p)' <=> Due(u, p)
  <2>1. \A u : \A q \in Handlers : Answering(q, u)' <=> Answering(q, u)
    BY <1>0, <1>2 DEF Answering
  <2> QED BY <1>0, <1>2, <2>1, Zenon DEF Due
<1>4. NoneLost'
  BY <1>2, Zenon DEF NoneLost, Writing
<1>5. WriterInv'
  <2> SUFFICES ASSUME NEW q \in Handlers, op'[q].pc = "write", ~op'[q].old
               PROVE  /\ Writing' = {q}
                      /\ \A u \in Users \ (excused' \cup {op'[q].user}) : \A p : Due(u, p)' => op'[q].read[u] = p
    BY DEF WriterInv
  <2>1. q = r
    BY <1>1, <1>2
  <2>2. Writing = {} /\ UpToDate(r)
    BY <1>0, <1>2, <2>1 DEF LossInv, ReaderInv
  <2>3. Writing' = {r}
    BY <1>2, <2>2 DEF Writing
  <2>4. \A u \in Users \ excused : \A p : Due(u, p) => op[r].read[u] = p
    BY <2>2 DEF LossInv, NoneLost, InFile, UpToDate, Loaded
  <2> QED BY <1>0, <1>2, <1>3, <2>1, <2>3, <2>4, Zenon
<1>6. ReaderInv'
  BY <1>1, <1>2 DEF ReaderInv
<1>7. AloneInv'
  BY <1>2, AloneKeeps DEF LossInv
<1> QED BY <1>4, <1>5, <1>6, <1>7, Zenon DEF LossInv

\* The steps that end a writing that fails, or mix it with another: everyone is excused.
LEMMA ExcusedKeeps ==
  ASSUME LossInv, UsersInv', NEW r \in Handlers, RequestMoves(r), op[r].pc = "write", excused' = Users,
         \/ op'[r] = NoOp
         \/ /\ op'[r].pc = "answer"
            /\ op'[r].kind = op[r].kind /\ op'[r].user = op[r].user /\ op'[r].alone = op[r].alone
  PROVE  LossInv'
<1>1. \A q \in Handlers : q # r => op'[q] = op[q]
  BY DEF RequestMoves, LossInv, UsersInv
<1>2. op'[r].pc \in {"none", "answer"}
  BY NoOpIsSound
<1>3. NoneLost'
  BY DEF NoneLost
<1>4. \A q \in Handlers : q # r /\ op[q].pc = "write" => op[q].old
  BY DEF LossInv, WriterInv, Writing
<1>5. WriterInv'
  BY <1>1, <1>2, <1>4 DEF WriterInv
<1>6. \A q \in Handlers : op[q].pc \in {"verify", "empty"} => op[q].old
  BY DEF LossInv, ReaderInv, Writing
<1>7. ReaderInv'
  BY <1>1, <1>2, <1>6 DEF ReaderInv
<1>8. AloneInv'
  <2>1. \A q \in Handlers : op'[q].kind # "none" =>
          op'[q].kind = op[q].kind /\ op'[q].user = op[q].user /\ op'[q].alone = op[q].alone
    BY <1>1, NoOpIsSound
  <2> QED BY <2>1, AloneKeeps DEF LossInv
<1> QED BY <1>3, <1>5, <1>7, <1>8, Zenon DEF LossInv

LEMMA WriteKeeps ==
  ASSUME LossInv, UsersInv', NEW r \in Handlers, WriteTheFile(r)
  PROVE  LossInv'
<1>0. UsersInv /\ op[r].pc = "write" /\ UNCHANGED acked
  BY DEF LossInv, WriteTheFile
<1>1. RequestMoves(r) /\ op'[r] = [op[r] EXCEPT !.pc = "answer"]
  BY <1>0, GoesToIs DEF WriteTheFile
<1>2. /\ op'[r].pc = "answer" /\ op'[r].kind = op[r].kind /\ op'[r].user = op[r].user
      /\ op'[r].alone = op[r].alone /\ op'[r].new = op[r].new
  BY <1>0, <1>1 DEF UsersInv, Sound, Operations
<1>3. \A q \in Handlers : q # r => op'[q] = op[q]
  BY <1>0, <1>1 DEF RequestMoves, UsersInv
<1>4. CASE excused' = Users
  BY <1>0, <1>1, <1>2, <1>4, ExcusedKeeps
<1>5. CASE /\ userFile' = [text |-> "users", users |-> WithChange(r)]
           /\ excused' = (IF op[r].old THEN Users ELSE excused) \ {op[r].user}
  <2>0. op[r].kind # "none" /\ op[r].user \in Users
    BY <1>0 DEF UsersInv, Sound, Operations
  <2>1. userFile'.text = "users" /\ userFile'.users = WithChange(r)
    BY <1>5
  <2>2. WithChange(r)[op[r].user] = op[r].new /\ \A u \in Users \ {op[r].user} : WithChange(r)[u] = op[r].read[u]
    BY <1>0 DEF WithChange, UsersInv, Sound, Operations, Entries
  <2>3. AloneInv'
    BY <1>2, <1>3, AloneKeeps DEF LossInv
  <2>4. ASSUME NEW u, u = op[r].user, NEW p, Due(u, p)' PROVE InFile(u, p)'
    <3>1. Answering(r, u)'
      BY <1>2, <2>4 DEF Answering
    <3>2. PICK q \in Handlers : op'[q].pc = "answer" /\ op'[q].user = op[r].user /\ op'[q].alone /\ p = op'[q].new
      BY <2>4, <3>1, Zenon DEF Due, Answering
    <3>3. q = r
      <4> SUFFICES ASSUME q # r PROVE FALSE
        OBVIOUS
      <4>1. op'[q].kind # "none" /\ op'[r].kind # "none" /\ op'[r].user = op'[q].user
        BY <1>2, <2>0, <3>2 DEF UsersInv, Sound
      <4> QED BY <2>3, <3>2, <4>1, Zenon DEF AloneInv, Serves
    <3> QED BY <1>2, <2>1, <2>2, <2>4, <3>2, <3>3, Zenon DEF InFile
  <2>5. \A q \in Handlers : q # r /\ op[q].pc = "write" => op[q].old
    BY <1>0 DEF LossInv, WriterInv, Writing
  <2>6. \A q \in Handlers : op[q].pc \in {"verify", "empty"} => op[q].old
    BY <1>0 DEF LossInv, ReaderInv, Writing
  <2>7. NoneLost'
    <3> SUFFICES ASSUME NEW u \in Users \ excused', NEW p, Due(u, p)' PROVE InFile(u, p)'
      BY DEF NoneLost
    <3>1. CASE u = op[r].user
      BY <2>4, <3>1, Zenon
    <3>2. CASE u # op[r].user
      <4>1. ~op[r].old /\ u \in Users \ (excused \cup {op[r].user})
        BY <1>5, <3>2
      <4>2. Due(u, p)
        <5>1. \A q \in Handlers : Answering(q, u)' <=> Answering(q, u)
          BY <1>2, <1>3, <3>2, <1>0 DEF Answering
        <5>2. \A q \in Handlers : Answering(q, u) => op'[q] = op[q]
          BY <1>0, <1>3 DEF Answering
        <5> QED BY <1>0, <5>1, <5>2, Zenon DEF Due
      <4>3. op[r].read[u] = p
        BY <1>0, <4>1, <4>2, Zenon DEF LossInv, WriterInv
      <4> QED BY <2>1, <2>2, <3>2, <4>3, Zenon DEF InFile
    <3> QED BY <3>1, <3>2
  <2>8. WriterInv'
    BY <1>2, <1>3, <2>5 DEF WriterInv
  <2>9. ReaderInv'
    BY <1>2, <1>3, <2>6 DEF ReaderInv
  <2> QED BY <2>3, <2>7, <2>8, <2>9, Zenon DEF LossInv
<1> QED BY <1>4, <1>5 DEF WriteTheFile

LEMMA AcknowledgeKeeps ==
  ASSUME LossInv, UsersInv', NEW r \in Handlers, Acknowledge(r)
  PROVE  LossInv'
<1>0. UsersInv /\ op[r].pc = "answer" /\ UNCHANGED <<userFile, excused>>
  BY DEF LossInv, Acknowledge
<1>1. RequestMoves(r) /\ op'[r] = NoOp
  BY <1>0, EndsIs DEF Acknowledge
<1>2. \A q \in Handlers : q # r => op'[q] = op[q]
  BY <1>0, <1>1 DEF RequestMoves, UsersInv
<1>3. op'[r].pc = "none" /\ op'[r].kind = "none"
  BY <1>1, NoOpIsSound
<1>4. Writing' = Writing
  BY <1>0, <1>2, <1>3 DEF Writing
<1>5. \A u \in Users : acked'[u] =
        IF u = op[r].user THEN (IF op[r].alone THEN op[r].new ELSE NoPassword) ELSE acked[u]
  BY <1>0 DEF Acknowledge, UsersInv, Entries
<1>6. ASSUME NEW u \in Users, NEW p, Due(u, p)' PROVE Due(u, p)
  <2>1. CASE u # op[r].user
    <3>1. \A q \in Handlers : Answering(q, u)' <=> Answering(q, u)
      BY <1>2, <1>3, <2>1 DEF Answering
    <3>2. \A q \in Handlers : Answering(q, u) => op'[q] = op[q]
      BY <1>2, <2>1 DEF Answering
    <3>3. acked'[u] = acked[u]
      BY <1>5, <2>1
    <3> QED BY <1>6, <3>1, <3>2, <3>3, Zenon DEF Due
  <2>2. CASE u = op[r].user
    <3>1. \A q \in Handlers : ~(Answering(q, u)' /\ op'[q].alone)
      <4> SUFFICES ASSUME NEW q \in Handlers, op'[q].pc = "answer", op'[q].user = u, op'[q].alone PROVE FALSE
        BY DEF Answering
      <4>1. q # r /\ op[q].pc = "answer" /\ op[q].user = u /\ op[q].alone
        BY <1>2, <1>3
      <4>2. op[q].kind # "none" /\ op[r].kind # "none"
        BY <1>0, <4>1 DEF UsersInv, Sound
      <4> QED BY <2>2, <4>1, <4>2, Zenon DEF LossInv, AloneInv, Serves
    <3>2. acked'[u] = p /\ p # NoPassword
      BY <1>6, <3>1, Zenon DEF Due
    <3>3. op[r].alone /\ p = op[r].new
      BY <1>5, <2>2, <3>2
    <3> QED BY <1>0, <2>2, <3>3, Zenon DEF Due, Answering
  <2> QED BY <2>1, <2>2
<1>7. NoneLost'
  <2>1. \A u \in Users : \A p : Due(u, p)' => Due(u, p)
    BY <1>6
  <2> QED BY <1>0, <1>4, <2>1, Zenon DEF LossInv, NoneLost, InFile
<1>8. WriterInv'
  <2> SUFFICES ASSUME NEW q \in Handlers, op'[q].pc = "write", ~op'[q].old
               PROVE  /\ Writing' = {q}
                      /\ \A u \in Users \ (excused' \cup {op'[q].user}) : \A p : Due(u, p)' => op'[q].read[u] = p
    BY DEF WriterInv
  <2>1. op'[q] = op[q]
    BY <1>2, <1>3
  <2>2. Writing = {q} /\ \A u \in Users \ (excused \cup {op[q].user}) : \A p : Due(u, p) => op[q].read[u] = p
    BY <2>1 DEF LossInv, WriterInv
  <2>3. \A u \in Users : \A p : Due(u, p)' => Due(u, p)
    BY <1>6
  <2> QED BY <1>0, <1>4, <2>1, <2>2, <2>3, Zenon
<1>9. ReaderInv'
  <2> SUFFICES ASSUME NEW q \in Handlers, op'[q].pc \in {"verify", "empty"}, ~op'[q].old
               PROVE  Writing' = {} /\ UpToDate(q)'
    BY DEF ReaderInv
  <2>1. op'[q] = op[q] /\ Writing = {} /\ UpToDate(q)
    BY <1>2, <1>3 DEF LossInv, ReaderInv
  <2> QED BY <1>0, <1>4, <2>1 DEF UpToDate
<1>10. AloneInv'
  BY <1>2, <1>3, Zenon DEF LossInv, AloneInv, Serves
<1> QED BY <1>7, <1>8, <1>9, <1>10, Zenon DEF LossInv

LEMMA CrashKeeps == LossInv /\ UsersInv' /\ UiCrash => LossInv'
<1> SUFFICES ASSUME LossInv, UsersInv', UiCrash PROVE LossInv'
  OBVIOUS
<1>1. \A q \in Handlers : op'[q].pc = "none" /\ op'[q].kind = "none"
  BY NoOpIsSound DEF UiCrash
<1>2. NoneLost'
  <2>1. CASE Writing # {}
    BY <2>1 DEF UiCrash, NoneLost
  <2>2. CASE Writing = {}
    <3>1. UNCHANGED <<userFile, excused>>
      BY <2>2 DEF UiCrash
    <3>2. ASSUME NEW u \in Users, NEW p, Due(u, p)' PROVE Due(u, p)
      <4>1. acked'[u] = p /\ p # NoPassword
        BY <1>1, <3>2 DEF Due, Answering
      <4>2. acked'[u] = IF \E r \in Handlers : Serves(r, u) /\ op[r].pc = "answer" THEN NoPassword ELSE acked[u]
        BY DEF UiCrash
      <4>3. acked[u] = p /\ \A r \in Handlers : ~(Serves(r, u) /\ op[r].pc = "answer")
        BY <4>1, <4>2, Zenon
      <4>4. \A r \in Handlers : ~Answering(r, u)
        BY <4>3 DEF Answering, Serves, LossInv, UsersInv, Sound
      <4> QED BY <4>1, <4>3, <4>4, Zenon DEF Due
    <3> QED BY <2>2, <3>1, <3>2, Zenon DEF LossInv, NoneLost, InFile
  <2> QED BY <2>1, <2>2
<1> QED BY <1>1, <1>2 DEF LossInv, WriterInv, ReaderInv, AloneInv

LEMMA LossStepInv == LossInv /\ [UsersNext]_usersVars => LossInv'
<1> SUFFICES ASSUME LossInv, [UsersNext]_usersVars PROVE LossInv'
  OBVIOUS
<1>0. UsersInv /\ UsersInv'
  BY UsersStepType DEF LossInv
<1>1. CASE UNCHANGED usersVars
  <2>0. UNCHANGED <<userFile, op, acked, excused>>
    BY <1>1 DEF usersVars
  <2>1. Writing' = Writing
    BY <2>0 DEF Writing
  <2>2. \A u : \A p : (Due(u, p)' <=> Due(u, p)) /\ (InFile(u, p)' <=> InFile(u, p))
    BY <2>0, Zenon DEF Due, Answering, InFile
  <2>3. NoneLost' /\ WriterInv'
    BY <2>0, <2>1, <2>2, Zenon DEF LossInv, NoneLost, WriterInv
  <2>4. ReaderInv' /\ AloneInv'
    BY <2>0, <2>1 DEF LossInv, ReaderInv, UpToDate, AloneInv, Serves
  <2> QED BY <1>0, <2>3, <2>4 DEF LossInv
<1>2. ASSUME NEW r \in Handlers, NEW kind \in {"change", "reset"}, NEW u \in Users, NEW given \in 0 .. NoPassword,
             PostUser(r, kind, u, given)
      PROVE  LossInv'
  BY <1>0, <1>2, PostKeeps
<1>3. ASSUME NEW r \in Handlers, ReadUsers(r) PROVE LossInv'
  <2>0. op[r].pc = "load" /\ UNCHANGED <<userFile, acked, excused>>
    BY <1>3 DEF ReadUsers
  <2>1. CASE userFile.text = "torn"
    BY <1>0, <1>3, <2>0, <2>1, EndsIs, BeforeWriting DEF ReadUsers
  <2>2. CASE userFile.text # "torn"
    <3>1. (Writing # {}) \in BOOLEAN /\ GoesOnWith(r, Loaded(userFile), Writing # {})
      BY <1>3, <2>2 DEF ReadUsers
    <3>2. /\ RequestMoves(r)
          /\ \/ op'[r] = NoOp
             \/ /\ op'[r].pc \in {"verify", "empty"} /\ op'[r].read = Loaded(userFile)
                /\ op'[r].old = (Writing # {})
                /\ op'[r].kind = op[r].kind /\ op'[r].user = op[r].user /\ op'[r].alone = op[r].alone
      BY <1>0, <2>0, <3>1, GoesOnIs, LoadedIsEntries
    <3>3. op'[r].read = Loaded(userFile) => UpToDate(r)'
      BY <2>0, <2>2 DEF UpToDate
    <3> QED BY <1>0, <2>0, <3>2, <3>3, BeforeWriting
  <2> QED BY <2>1, <2>2
<1>4. ASSUME NEW r \in Handlers, ReadFails(r) PROVE LossInv'
  <2>1. op[r].pc = "load" /\ UNCHANGED <<userFile, acked, excused>> /\ GoesOnWith(r, EnvEntries, TRUE)
    BY <1>4 DEF ReadFails
  <2>2. /\ RequestMoves(r)
        /\ \/ op'[r] = NoOp
           \/ /\ op'[r].pc \in {"verify", "empty"} /\ op'[r].old = TRUE
              /\ op'[r].kind = op[r].kind /\ op'[r].user = op[r].user /\ op'[r].alone = op[r].alone
    <3>1. TRUE \in BOOLEAN /\ EnvEntries \in Entries
      BY NoPasswordIsEntry
    <3> QED BY <1>0, <2>1, <3>1, GoesOnIs, Zenon
  <2>3. \/ op'[r] = NoOp
        \/ /\ op'[r].pc \in {"verify", "empty"}
           /\ op'[r].kind = op[r].kind /\ op'[r].user = op[r].user /\ op'[r].alone = op[r].alone
           /\ op'[r].old \/ (Writing = {} /\ UpToDate(r)')
    <3>1. ASSUME op'[r].old = TRUE PROVE op'[r].old
      BY <3>1, Zenon
    <3> QED BY <2>2, <3>1, Zenon
  <2> QED BY <1>0, <2>1, <2>2, <2>3, BeforeWriting
<1>5. ASSUME NEW r \in Handlers, VerifyCurrent(r) PROVE LossInv'
  <2>0. op[r].pc = "verify" /\ UNCHANGED <<userFile, acked, excused>> /\ (GoesTo(r, "empty") \/ Ends(r))
    BY <1>5 DEF VerifyCurrent
  <2>1. CASE Ends(r)
    BY <1>0, <2>0, <2>1, EndsIs, BeforeWriting
  <2>2. CASE GoesTo(r, "empty")
    <3>1. RequestMoves(r) /\ op'[r] = [op[r] EXCEPT !.pc = "empty"]
      BY <1>0, <2>0, <2>2, GoesToIs
    <3>2. /\ op'[r].pc = "empty" /\ op'[r].kind = op[r].kind /\ op'[r].user = op[r].user
          /\ op'[r].alone = op[r].alone /\ op'[r].old = op[r].old /\ op'[r].read = op[r].read
      BY <1>0, <3>1 DEF UsersInv, Sound, Operations
    <3>3. op[r].old \/ (Writing = {} /\ UpToDate(r))
      <4>1. op[r].pc \in {"verify", "empty"}
        BY <2>0
      <4>2. op[r].pc \in {"verify", "empty"} /\ ~op[r].old => Writing = {} /\ UpToDate(r)
        BY DEF LossInv, ReaderInv
      <4> QED BY <4>1, <4>2, Zenon
    <3>4. op'[r].old \/ (Writing = {} /\ UpToDate(r)')
      BY <2>0, <3>2, <3>3, Zenon DEF UpToDate, Loaded
    <3> QED BY <1>0, <2>0, <3>1, <3>2, <3>4, BeforeWriting
  <2> QED BY <2>0, <2>1, <2>2
<1>6. ASSUME NEW r \in Handlers, EmptyTheFile(r) PROVE LossInv'
  BY <1>0, <1>6, EmptyKeeps
<1>7. ASSUME NEW r \in Handlers, OpenFails(r) PROVE LossInv'
  BY <1>0, <1>7, EndsIs, BeforeWriting DEF OpenFails
<1>8. ASSUME NEW r \in Handlers, WriteTheFile(r) PROVE LossInv'
  BY <1>0, <1>8, WriteKeeps
<1>9. ASSUME NEW r \in Handlers, WriteFails(r) PROVE LossInv'
  BY <1>0, <1>9, EndsIs, ExcusedKeeps DEF WriteFails
<1>10. ASSUME NEW r \in Handlers, Acknowledge(r) PROVE LossInv'
  BY <1>0, <1>10, AcknowledgeKeeps
<1>11. CASE UiCrash
  BY <1>0, <1>11, CrashKeeps
<1>12. CASE AllConfirmed
  BY <1>1, <1>12 DEF AllConfirmed
<1> QED BY <1>1, <1>2, <1>3, <1>4, <1>5, <1>6, <1>7, <1>8, <1>9, <1>10, <1>11, <1>12 DEF UsersNext

\* A confirmed password that is not in the file has been taken from it by a failed read,
\* by a request that wrote what it had read before another wrote, or by a write that
\* failed, was cut off or ran into another: for any users and passwords, any number of
\* requests at the same time, and any faults.
THEOREM LossesHaveCauses == UsersSpec => []LossHasCause
<1>1. ASSUME LossInv, Writing = {}, NEW u \in Users \ excused, acked[u] # NoPassword, ~Handled(u)
      PROVE  userFile.text = "users" /\ userFile.users[u] = acked[u]
  <2>1. \A q \in Handlers : ~Answering(q, u)
    BY <1>1 DEF Answering, Handled, Serves, LossInv, UsersInv, Sound
  <2>2. Due(u, acked[u])
    BY <1>1, <2>1, Zenon DEF Due
  <2> QED BY <1>1, <2>2, Zenon DEF LossInv, NoneLost, InFile
<1>2. LossInv => LossHasCause
  BY <1>1, Zenon DEF LossHasCause
<1> QED BY <1>2, LossInitInv, LossStepInv, PTL DEF UsersSpec

-----------------------------------------------------------------------------
(* The run list: what is fetched, shown or on its way are pages.           *)

PageSet == [rows : Seq(Row), next : 0 .. MaxRuns]
PageOK(p) == p \in PageSet /\ (Len(p.rows) <= RunPageLimit \/ Len(p.rows) <= DefaultRunLimit)

FetchOK(f) == f = NoFetch \/ f = Asked \/ \E p \in PageSet : f = Answered(p) /\ PageOK(p)

PagesInv ==
  /\ runs \in 0 .. MaxRuns /\ ended \in 0 .. runs
  /\ PageOK(data)
  /\ pages \in Seq(PageSet) /\ Len(pages) \in 1 .. MaxPages
  /\ \A i \in 1 .. Len(pages) : PageOK(pages[i])
  /\ FetchOK(runPoll) /\ FetchOK(more)
  /\ more # NoFetch => Len(pages) < MaxPages

LEMMA PageWhenOK ==
  ASSUME NEW n \in 0 .. MaxRuns, NEW m \in Nat, NEW limit \in {RunPageLimit, DefaultRunLimit}
  PROVE  PageOK(PageWhen(n, m, limit))
<1>0. MaxRuns \in Nat /\ n \in Nat /\ n <= MaxRuns /\ limit \in Nat \ {0}
  BY PagesAssumption
<1> DEFINE size == Min2(n, limit)
<1>1. size \in Nat /\ size <= n /\ size <= limit
  BY <1>0 DEF Min2
<1> HIDE DEF size
<1>2. ASSUME NEW i \in 1 .. size PROVE n - (i - 1) \in 1 .. MaxRuns /\ (n - (i - 1) <= m) \in BOOLEAN
  BY <1>0, <1>1
<1>3. ASSUME NEW i \in 1 .. size PROVE [run |-> n - (i - 1), over |-> n - (i - 1) <= m] \in Row
  BY <1>2 DEF Row
<1>4. RowsFrom(n, size, m) \in Seq(Row) /\ Len(RowsFrom(n, size, m)) = size
  BY <1>1, <1>3 DEF RowsFrom
<1>5. (IF n > limit THEN n - limit + 1 ELSE 0) \in 0 .. MaxRuns
  BY <1>0
<1> DEFINE p == PageWhen(n, m, limit)
<1>6. p = [rows |-> RowsFrom(n, size, m), next |-> IF n > limit THEN n - limit + 1 ELSE 0]
  BY DEF PageWhen, size
<1> HIDE DEF p
<1>7. p.rows = RowsFrom(n, size, m) /\ p \in PageSet
  BY <1>4, <1>5, <1>6 DEF PageSet
<1>8. size <= RunPageLimit \/ size <= DefaultRunLimit
  BY <1>1
<1> QED BY <1>4, <1>7, <1>8 DEF PageOK, p

LEMMA NoRunsOK == PageOK(NoRuns)
BY PagesAssumption DEF NoRuns, PageOK, PageSet

LEMMA FetchKinds ==
  /\ NoFetch.at = "idle" /\ Asked.at = "asked" /\ NoFetch # Asked
  /\ \A p : Answered(p).at = "answered" /\ Answered(p).page = p
BY DEF NoFetch, Asked, Answered

LEMMA PagesInitInv == RunPagesInit => PagesInv
<1> SUFFICES ASSUME RunPagesInit PROVE PagesInv
  OBVIOUS
<1>1. runs \in 0 .. MaxRuns /\ ended \in 0 .. runs /\ runs \in Nat /\ ended \in Nat
  BY PagesAssumption DEF RunPagesInit
<1>2. PICK page \in {RenderedPage, NoRuns} :
        /\ pages = <<page>>
        /\ data \in {page} \cup
             {PageWhen(n, Min2(n, m), limit) :
                n \in 0 .. runs, m \in 0 .. ended, limit \in {RunPageLimit, DefaultRunLimit}}
  BY DEF RunPagesInit
<1>3. PageOK(page)
  BY <1>1, <1>2, PageWhenOK, NoRunsOK DEF RenderedPage
<1>4. \A n \in 0 .. runs, m \in 0 .. ended : n \in 0 .. MaxRuns /\ Min2(n, m) \in Nat
  BY <1>1, PagesAssumption DEF Min2
<1>5. PageOK(data)
  BY <1>2, <1>3, <1>4, PageWhenOK
<1>6. pages \in Seq(PageSet) /\ Len(pages) = 1 /\ pages[1] = page
  BY <1>2, <1>3 DEF PageOK
<1>7. runPoll = NoFetch /\ more = NoFetch
  BY DEF RunPagesInit
<1> QED BY <1>1, <1>3, <1>5, <1>6, <1>7, PagesAssumption DEF PagesInv, FetchOK

LEMMA PagesStepInv == PagesInv /\ [RunPagesNext]_runPagesVars => PagesInv'
<1> SUFFICES ASSUME PagesInv, [RunPagesNext]_runPagesVars PROVE PagesInv'
  OBVIOUS
<1>0. runs \in 0 .. MaxRuns /\ ended \in 0 .. runs /\ runs \in Nat /\ ended \in Nat
  BY PagesAssumption DEF PagesInv
<1>n. PageOK(NewestPage) /\ NewestPage \in PageSet
  BY <1>0, PageWhenOK DEF NewestPage, PageOK
<1>1. CASE UNCHANGED runPagesVars
  BY <1>1 DEF runPagesVars, PagesInv, FetchOK
<1>2. CASE RunStarts
  BY <1>0, <1>2, PagesAssumption DEF RunStarts, PagesInv
<1>3. CASE RunEnds
  BY <1>0, <1>3 DEF RunEnds, PagesInv
<1>4. CASE RunTick
  BY <1>4 DEF RunTick, PagesInv, FetchOK
<1>5. CASE PollAnswer
  BY <1>n, <1>5 DEF PollAnswer, PagesInv, FetchOK
<1>6. CASE PollArrive
  <2>1. PageOK(data')
    BY <1>6, FetchKinds DEF PollArrive, PagesInv, FetchOK
  <2> QED BY <1>6, <2>1 DEF PollArrive, PagesInv, FetchOK
<1>7. CASE PollFails
  BY <1>7 DEF PollFails, PagesInv, FetchOK
<1>8. CASE Effect
  <2>1. pages # <<>> /\ data \in PageSet
    BY DEF PagesInv, PageOK
  <2>2. pages' = [pages EXCEPT ![1] = data]
    BY <1>8, <2>1 DEF Effect, Replaced
  <2>3. pages' \in Seq(PageSet) /\ Len(pages') = Len(pages)
    BY <2>1, <2>2 DEF PagesInv
  <2>4. \A i \in 1 .. Len(pages) : pages'[i] = IF i = 1 THEN data ELSE pages[i]
    BY <2>2 DEF PagesInv
  <2> QED BY <1>8, <2>3, <2>4 DEF Effect, PagesInv
<1>9. CASE LoadOlderRuns
  BY <1>9 DEF LoadOlderRuns, PagesInv, FetchOK
<1>10. CASE MoreAnswer
  <2>1. more # NoFetch
    BY <1>10, FetchKinds DEF MoreAnswer
  <2> QED BY <1>n, <1>10, <2>1 DEF MoreAnswer, PagesInv, FetchOK
<1>11. CASE MoreArrive
  <2>1. PageOK(more.page) /\ more.page \in PageSet /\ more # NoFetch
    BY <1>11, FetchKinds DEF MoreArrive, PagesInv, FetchOK, PageOK
  <2>2. pages' \in Seq(PageSet) /\ Len(pages') = Len(pages) + 1 /\ Len(pages) \in Nat
    BY <1>11, <2>1 DEF MoreArrive, PagesInv
  <2>3. \A i \in 1 .. Len(pages) + 1 : pages'[i] = IF i <= Len(pages) THEN pages[i] ELSE more.page
    BY <1>11, <2>1 DEF MoreArrive, PagesInv
  <2>4. Len(pages') \in 1 .. MaxPages
    BY <2>1, <2>2, PagesAssumption DEF PagesInv
  <2>5. \A i \in 1 .. Len(pages') : PageOK(pages'[i])
    BY <2>1, <2>2, <2>3 DEF PagesInv
  <2> QED BY <1>11, <2>2, <2>4, <2>5 DEF MoreArrive, PagesInv, FetchOK
<1>12. CASE MoreFails
  BY <1>12 DEF MoreFails, PagesInv, FetchOK
<1> QED BY <1>1, <1>2, <1>3, <1>4, <1>5, <1>6, <1>7, <1>8, <1>9, <1>10, <1>11, <1>12 DEF RunPagesNext, RunPoll

\* The pages of the run list, its query and its requests keep their types, for any page
\* sizes and number of runs.
THEOREM RunPagesTypeCorrect == RunPagesSpec => []RunPagesTypeOK
<1>1. ASSUME NEW p, PageOK(p) PROVE IsPage(p)
  BY <1>1 DEF PageOK, PageSet, IsPage
<1>2. ASSUME NEW f, FetchOK(f) PROVE f.at \in {"idle", "asked", "answered"}
  BY <1>2, FetchKinds DEF FetchOK
<1>3. PagesInv => RunPagesTypeOK
  BY <1>1, <1>2 DEF PagesInv, RunPagesTypeOK
<1> QED BY <1>3, PagesInitInv, PagesStepInv, PTL DEF RunPagesSpec

-----------------------------------------------------------------------------
(* The run.  Each component moves by its own steps and stays where it is   *)
(* while another one moves.                                                *)

LEMMA ComponentsBegin ==
  MCInit => /\ PanelInit /\ DashboardInit /\ UrlInit /\ FormsInit /\ RunPagesInit
            /\ LogInit /\ MapLinksInit /\ MapViewInit /\ MapCanvasInit /\ UsersInit
BY Zenon DEF MCInit

ComponentSteps ==
  /\ [PanelNext]_panelVars /\ [DashboardNext]_dashboardVars /\ [UrlNext]_urlVars
  /\ [FormsNext]_formsVars /\ [RunPagesNext]_runPagesVars /\ [LogNext]_logVars
  /\ [MapLinksNext]_mapLinksVars /\ [MapViewNext]_mapViewVars /\ [MapCanvasNext]_canvasVars
  /\ [UsersNext]_usersVars

LEMMA ComponentsStep == [MCNext]_allVars => ComponentSteps
<1> SUFFICES ASSUME [MCNext]_allVars PROVE ComponentSteps
  OBVIOUS
<1> USE DEF ComponentSteps
<1>1. CASE UNCHANGED allVars
  BY <1>1, Zenon DEF allVars
<1>2. CASE MCPanel
  BY <1>2, Zenon DEF MCPanel
<1>3. CASE MCDashboard
  BY <1>3, Zenon DEF MCDashboard
<1>4. CASE MCUrl
  BY <1>4, Zenon DEF MCUrl
<1>5. CASE MCForms
  BY <1>5, Zenon DEF MCForms
<1>6. CASE MCRunPages
  BY <1>6, Zenon DEF MCRunPages
<1>7. CASE MCLog
  BY <1>7, Zenon DEF MCLog
<1>8. CASE MCMapLinks
  BY <1>8, Zenon DEF MCMapLinks
<1>9. CASE MCMapView
  BY <1>9, Zenon DEF MCMapView
<1>10. CASE MCMapCanvas
  BY <1>10, Zenon DEF MCMapCanvas
<1>11. CASE MCUsers
  BY <1>11, Zenon DEF MCUsers
<1> QED BY <1>1, <1>2, <1>3, <1>4, <1>5, <1>6, <1>7, <1>8, <1>9, <1>10, <1>11, Zenon DEF MCNext

\* Whichever component moves, the run is a behaviour of each: what is proved of the
\* components is true of the pages of one browser.
LEMMA RunOfComponents ==
  MCFairSpec => /\ PanelSpec /\ DashboardSpec /\ UrlSpec /\ FormsSpec /\ RunPagesSpec
                /\ LogSpec /\ MapLinksSpec /\ MapViewSpec /\ MapCanvasSpec /\ UsersSpec
<1>1. MCFairSpec => PanelSpec /\ DashboardSpec /\ UrlSpec /\ FormsSpec /\ RunPagesSpec
  BY ComponentsBegin, ComponentsStep, PTL
  DEF MCFairSpec, ComponentSteps, PanelSpec, DashboardSpec, UrlSpec, FormsSpec, RunPagesSpec
<1>2. MCFairSpec => LogSpec /\ MapLinksSpec /\ MapViewSpec /\ MapCanvasSpec /\ UsersSpec
  BY ComponentsBegin, ComponentsStep, PTL
  DEF MCFairSpec, ComponentSteps, LogSpec, MapLinksSpec, MapViewSpec, MapCanvasSpec, UsersSpec
<1> QED BY <1>1, <1>2, PTL

\* Every variable of ui-node's pages and of its file of users keeps its type, in the
\* composition the run checks and for any values of its constants.
THEOREM UiNodeTypeCorrect == MCFairSpec => []TypesOK
<1>1. /\ PanelTypeOK /\ DashboardTypeOK /\ UrlTypeOK /\ FormsTypeOK /\ RunPagesTypeOK
      /\ LogTypeOK /\ MapLinksTypeOK /\ MapViewTypeOK /\ MapCanvasTypeOK /\ UsersTypeOK
      => TypesOK
  BY Zenon DEF TypesOK
<1> QED BY <1>1, RunOfComponents, PanelTypeCorrect, DashboardTypeCorrect, UrlTypeCorrect, FormsTypeCorrect,
           RunPagesTypeCorrect, LogTypeCorrect, MapLinksTypeCorrect, MapViewTypeCorrect, CanvasTypeCorrect,
           UsersTypeCorrect, PTL

\* All the safety properties of the run at once, for any values of its constants: the
\* devices page, the logs and the map keep what they promise whichever of them moves,
\* and a password that is lost has one of the named causes.
THEOREM UiNodeIsSafe ==
  MCFairSpec => /\ [](QuestionPerRun /\ CursorOfSelection /\ FactsOfSelected /\ HistoryContiguous)
                /\ [](ListsOfSelected /\ SavedIsShown /\ Consecutive)
                /\ [](ProjectionOfPage /\ LinksStaySupported /\ CanvasTells /\ LossHasCause)
                /\ PinnedStays
<1>1. MCFairSpec => [](QuestionPerRun /\ CursorOfSelection /\ FactsOfSelected /\ HistoryContiguous)
  BY RunOfComponents, EveryRunIsConfirmed, CursorsKeepTheirSelection, FactsAreOfSelected, TimelineIsContiguous, PTL
<1>2. MCFairSpec => [](ListsOfSelected /\ SavedIsShown /\ Consecutive)
  BY RunOfComponents, ListsAreOfSelected, SavedTagsAreShown, EntriesAreConsecutive, PTL
<1>3. MCFairSpec => [](ProjectionOfPage /\ LinksStaySupported /\ CanvasTells /\ LossHasCause)
  BY RunOfComponents, ProjectionIsOfPage, LinksLeadSomewhere, DrawingTells, LossesHaveCauses, PTL
<1>4. MCFairSpec => PinnedStays
  BY RunOfComponents, PinnedViewStays, PTL
<1> QED BY <1>1, <1>2, <1>3, <1>4, PTL
===============================================================================
