--------------------------- MODULE KeyStoreProof ---------------------------
(***************************************************************************)
(* Proofs about KeyStore, for any number of threads, ids, keys and         *)
(* requests.                                                               *)
(***************************************************************************)
EXTENDS KeyStore, TLAPS

(* A request has the keys that its next step uses, and one that reads its file has
   been let through to it.                                                 *)
HandInv ==
  \A w \in Workers :
    /\ At(w, "drawMoon") => worker[w].player \in Keys
    /\ worker[w].at \in {"open", "write"} => worker[w].pair \in Pairs
    /\ At(w, "load") => Accepted(worker[w].op, worker[w].user)

(* What a refresh has read so far is what the files hold, but for what it missed:
   what it could not read, and what was written after it had read the file. *)
ScanInv ==
  \A w \in Workers : \A u \in Listed :
    AlreadyRead(w, u) /\ files[u] \in Pairs => files[u] \in worker[w].found \cup missed[w]

(* A refresh finds only what the files hold, but for what left them after it
   had read them.                                                          *)
FoundInv ==
  \A w \in Workers : At(w, "read") =>
    \A p \in worker[w].found :
      p \in dropped[w] \/ \E u \in Listed \ worker[w].unread : files[u] = p

IInv ==
  /\ TypeOK
  /\ HandInv
  /\ ScanInv
  /\ FoundInv
  /\ FilesKnown
  /\ DeletedForgotten
  /\ WrittenPromiseKept

-----------------------------------------------------------------------------
LEMMA InitIInv == Init => IInv
BY ContentsAssumption, MaxRequestsAssumption, MaxFaultsAssumption, ListedAssumption
   DEF Init, IInv, TypeOK, HandInv, ScanInv, FoundInv, FilesKnown,
       DeletedForgotten, WrittenPromiseKept, AlreadyRead, At, Idle

(* What the type invariant says of a thread that handles a request. *)
LEMMA RequestFacts ==
  ASSUME TypeOK, NEW w \in Workers, worker[w].at \in Steps
  PROVE  /\ worker[w] \in Requests /\ worker[w] # Idle
         /\ worker[w].user \in Users /\ worker[w].unread \subseteq Listed
         /\ worker[w].found \subseteq Pairs
         /\ worker[w].op \in Operations
         /\ worker[w].player \in Keys \cup {NoKey}
         /\ worker[w].pair \in Pairs \cup {NoPair}
<1>1. worker[w] # Idle
  BY DEF Idle, Steps
<1>2. worker[w] \in Requests
  BY <1>1 DEF TypeOK
<1> QED BY <1>1, <1>2 DEF Requests

(* Responding, and going on with the request, are well typed. *)
LEMMA GotoType ==
  ASSUME TypeOK, NEW w \in Workers, worker[w].at \in Steps, NEW step \in Steps,
         Respond(w) \/ Goto(w, step)
  PROVE  worker' \in [Workers -> Requests \cup {Idle}]
<1>1. worker[w] \in Requests
  BY RequestFacts
<1>2. [worker[w] EXCEPT !.at = step] \in Requests
  BY <1>1 DEF Requests
<1> QED BY <1>2 DEF TypeOK, Respond, Goto

(* A refresh that begins is well typed. *)
LEMMA RefreshingType ==
  ASSUME NEW r \in Requests
  PROVE  /\ Refreshing(r) \in Requests
         /\ Refreshing(r).at = "read" /\ Refreshing(r).unread = Listed
         /\ Refreshing(r).pair = r.pair /\ Refreshing(r).found = {}
BY DEF Refreshing, Requests, Steps

LEMMA RequestType ==
  ASSUME NEW op \in Operations, NEW u \in Users
  PROVE  /\ Request(op, u) \in Requests
         /\ Request(op, u).at = "exists" /\ Request(op, u).pair = NoPair
BY DEF Request, Requests, Steps

LEMMA DroppedType ==
  ASSUME TypeOK, NEW u \in Users, NoteDropped(u)
  PROVE  dropped' \in [Workers -> SUBSET Pairs] /\ gone' \subseteq Pairs
BY DEF TypeOK, NoteDropped

(* Type correctness is preserved. *)
LEMMA TypeStep ==
  ASSUME IInv, [Next]_vars
  PROVE  TypeOK'
<1> USE MaxRequestsAssumption, MaxFaultsAssumption, ContentsAssumption, ListedAssumption
    DEF histVars, counters
<1>1. ASSUME NEW w \in Workers, NEW op \in Operations, NEW u \in Users, Begin(w, op, u)
      PROVE  TypeOK'
  <2>1. Request(op, u) \in Requests /\ Refreshing(Request(op, u)) \in Requests
    BY RequestType, RefreshingType
  <2> QED BY <1>1, <2>1 DEF IInv, TypeOK, Begin
<1>2. ASSUME NEW w \in Workers, NEW u \in Listed, ReadKeyFile(w, u)
      PROVE  TypeOK'
  <2>1. worker[w] \in Requests
    BY <1>2, RequestFacts DEF IInv, ReadKeyFile, At, Steps
  <2>2. [worker[w] EXCEPT !.unread = Unread(w, u), !.found = @ \cup Parsed(files[u])]
          \in Requests
    BY <2>1 DEF Requests, Unread, Parsed
  <2>3. worker' \in [Workers -> Requests \cup {Idle}]
    BY <1>2, <2>2 DEF IInv, TypeOK, ReadKeyFile
  <2> QED BY <1>2, <2>3 DEF IInv, TypeOK, ReadKeyFile
<1>3. ASSUME NEW w \in Workers, SwapKeys(w)
      PROVE  TypeOK'
  <2>1. worker[w].at \in Steps /\ worker[w].found \subseteq Pairs
    BY <1>3, RequestFacts DEF IInv, SwapKeys, At, Steps
  <2>2. worker' \in [Workers -> Requests \cup {Idle}]
    BY <1>3, <2>1, GotoType DEF IInv, SwapKeys, AfterRefresh, Steps
  <2> QED BY <1>3, <2>1, <2>2 DEF IInv, TypeOK, SwapKeys
<1>4. ASSUME NEW w \in Workers, NEW k \in Keys, DrawPlayer(w, k)
      PROVE  TypeOK'
  <2>1. worker[w] \in Requests
    BY <1>4, RequestFacts DEF IInv, DrawPlayer, At, Steps
  <2>2. [worker[w] EXCEPT !.player = k, !.at = "drawMoon"] \in Requests
    BY <2>1 DEF Requests, Steps
  <2>3. worker' \in [Workers -> Requests \cup {Idle}]
    BY <1>4, <2>2 DEF IInv, TypeOK, DrawPlayer
  <2> QED BY <1>4, <2>3 DEF IInv, TypeOK, DrawPlayer, NoteDrawn
<1>5. ASSUME NEW w \in Workers, NEW k \in Keys, DrawMoon(w, k)
      PROVE  TypeOK'
  <2>1. worker[w] \in Requests /\ worker[w].player \in Keys
    BY <1>5, RequestFacts DEF IInv, HandInv, DrawMoon, At, Steps
  <2>2. [worker[w] EXCEPT !.pair = [moon |-> k, player |-> worker[w].player],
                          !.at = "open"] \in Requests
    BY <2>1 DEF Requests, Steps, Pairs
  <2>3. worker' \in [Workers -> Requests \cup {Idle}]
    BY <1>5, <2>2 DEF IInv, TypeOK, DrawMoon
  <2> QED BY <1>5, <2>3 DEF IInv, TypeOK, DrawMoon, NoteDrawn
<1>6. ASSUME NEW w \in Workers, GiveUp(w) \/ FileExists(w)
      PROVE  TypeOK'
  <2>1. worker[w].at \in Steps
    BY <1>6 DEF GiveUp, FileExists, At, Steps
  <2>2. worker' \in [Workers -> Requests \cup {Idle}]
    BY <1>6, <2>1, GotoType DEF IInv, GiveUp, FileExists, Steps
  <2> QED BY <1>6, <2>2 DEF IInv, TypeOK, GiveUp, FileExists
<1>7. ASSUME NEW w \in Workers, Load(w)
      PROVE  TypeOK'
  <2>1. worker[w] \in Requests
    BY <1>7, RequestFacts DEF IInv, Load, At, Steps
  <2>2. ASSUME NEW p \in Pairs
        PROVE  [worker[w] EXCEPT !.pair = p, !.at = "open"] \in Requests
    BY <2>1 DEF Requests, Steps
  <2>3. worker' \in [Workers -> Requests \cup {Idle}]
    <3>1. CASE Respond(w)
      BY <3>1 DEF IInv, TypeOK, Respond
    <3>2. CASE ~Respond(w)
      <4> DEFINE u == worker[w].user
                 new == [worker[w] EXCEPT !.pair = files[u], !.at = "open"]
      <4>1. files[u] \in Pairs
        BY <1>7, <3>2 DEF Load
      <4>2. worker' = [worker EXCEPT ![w] = new]
        BY <1>7, <2>1, <3>2 DEF IInv, TypeOK, Load
      <4>3. new \in Requests
        BY <2>2, <4>1
      <4> HIDE DEF new
      <4> QED BY <4>2, <4>3 DEF IInv, TypeOK
    <3> QED BY <3>1, <3>2
  <2> QED BY <1>7, <2>3 DEF IInv, TypeOK, Load
<1>8. ASSUME NEW w \in Workers, Open(w)
      PROVE  TypeOK'
  <2>1. worker[w] \in Requests /\ worker[w].user \in Users
    BY <1>8, RequestFacts DEF IInv, Open, At, Steps
  <2>2. [worker[w] EXCEPT !.at = "write", !.linked = TRUE] \in Requests
    BY <2>1 DEF Requests, Steps
  <2>3. worker' \in [Workers -> Requests \cup {Idle}]
    BY <1>8, <2>2 DEF IInv, TypeOK, Open
  <2>4. files' \in [Users -> Pairs \cup {NoFile, Empty}]
        /\ promised' \in [Users -> Pairs \cup {NoPair}]
    BY <1>8, <2>1 DEF IInv, TypeOK, Open
  <2>5. dropped' \in [Workers -> SUBSET Pairs] /\ gone' \subseteq Pairs
    BY <1>8, <2>1, DroppedType DEF IInv, Open
  <2> QED BY <1>8, <2>3, <2>4, <2>5 DEF IInv, TypeOK, Open
<1>9. ASSUME NEW w \in Workers, Write(w)
      PROVE  TypeOK'
  <2>1. worker[w] \in Requests /\ worker[w].user \in Users /\ worker[w].pair \in Pairs
    BY <1>9, RequestFacts DEF IInv, HandInv, Write, At, Steps
  <2>2. Refreshing(worker[w]) \in Requests
    BY <2>1, RefreshingType
  <2>3. worker' \in [Workers -> Requests \cup {Idle}]
    BY <1>9, <2>2 DEF IInv, TypeOK, Write, AfterWrite, Respond
  <2>4. /\ files' \in [Users -> Pairs \cup {NoFile, Empty}]
        /\ promised' \in [Users -> Pairs \cup {NoPair}]
        /\ fresh' \subseteq Pairs /\ missed' \in [Workers -> SUBSET Pairs]
    BY <1>9, <2>1 DEF IInv, TypeOK, Write, NoteWritten
  <2>5. dropped' \in [Workers -> SUBSET Pairs] /\ gone' \subseteq Pairs
    BY <1>9, <2>1, DroppedType DEF IInv, TypeOK, Write
  <2> QED BY <1>9, <2>3, <2>4, <2>5 DEF IInv, TypeOK, Write
<1>10. ASSUME NEW w \in Workers, Remove(w)
      PROVE  TypeOK'
  <2>1. worker[w].user \in Users
    BY <1>10, RequestFacts DEF IInv, Remove, At, Steps
  <2>2. ASSUME NEW x \in Workers, At(x, "write")
        PROVE  [worker[x] EXCEPT !.linked = FALSE] \in Requests
    <3>1. worker[x] \in Requests
      BY <2>2, RequestFacts DEF IInv, At, Steps
    <3> QED BY <3>1 DEF Requests
  <2>3. worker' \in [Workers -> Requests \cup {Idle}]
    BY <1>10, <2>2 DEF IInv, TypeOK, Remove
  <2>4. dropped' \in [Workers -> SUBSET Pairs] /\ gone' \subseteq Pairs
    BY <1>10, <2>1, DroppedType DEF IInv, Remove
  <2> QED BY <1>10, <2>1, <2>3, <2>4 DEF IInv, TypeOK, Remove
<1>11. ASSUME NEW w \in Workers, NEW u \in Listed, SkipKeyFile(w, u)
       PROVE  TypeOK'
  <2>1. worker[w] \in Requests
    BY <1>11, RequestFacts DEF IInv, SkipKeyFile, Fails, Steps
  <2>2. [worker[w] EXCEPT !.unread = Unread(w, u)] \in Requests
    BY <2>1 DEF Requests, Unread
  <2>3. worker' \in [Workers -> Requests \cup {Idle}]
    BY <1>11, <2>2 DEF IInv, TypeOK, SkipKeyFile
  <2>4. missed' \in [Workers -> SUBSET Pairs] /\ faults' \in 0..MaxFaults
    BY <1>11 DEF IInv, TypeOK, SkipKeyFile, Fails, Parsed
  <2> QED BY <1>11, <2>3, <2>4 DEF IInv, TypeOK, SkipKeyFile
<1>12. ASSUME NEW w \in Workers, Unwritten(w)
       PROVE  TypeOK'
  <2>1. worker[w] \in Requests /\ worker[w].user \in Users /\ worker[w].pair \in Pairs
    BY <1>12, RequestFacts DEF IInv, HandInv, Unwritten, Fails, Steps
  <2>2. Refreshing(worker[w]) \in Requests
    BY <2>1, RefreshingType
  <2>3. worker' \in [Workers -> Requests \cup {Idle}]
    BY <1>12, <2>2 DEF IInv, TypeOK, Unwritten, AfterWrite, Respond
  <2>4. promised' \in [Users -> Pairs \cup {NoPair}] /\ faults' \in 0..MaxFaults
    BY <1>12, <2>1 DEF IInv, TypeOK, Unwritten, Fails
  <2> QED BY <1>12, <2>3, <2>4 DEF IInv, TypeOK, Unwritten
<1>13. ASSUME NEW w \in Workers, Abort(w)
       PROVE  TypeOK'
  <2>1. worker' \in [Workers -> Requests \cup {Idle}]
    BY <1>13 DEF IInv, TypeOK, Abort, Respond
  <2>2. faults' \in 0..MaxFaults
    BY <1>13 DEF IInv, TypeOK, Abort, Fails
  <2>3. \/ UNCHANGED promised
        \/ promised' = [promised EXCEPT ![worker[w].user] = NoPair]
    BY <1>13 DEF Abort
  <2>4. promised' \in [Users -> Pairs \cup {NoPair}]
    BY <2>3 DEF IInv, TypeOK
  <2>5. missed' \in [Workers -> SUBSET Pairs] /\ dropped' \in [Workers -> SUBSET Pairs]
    BY <1>13 DEF IInv, TypeOK, Abort
  <2> QED BY <1>13, <2>1, <2>2, <2>4, <2>5 DEF IInv, TypeOK, Abort
<1>14. CASE Restart
  <2>1. faults' \in 0..MaxFaults
    <3>1. PICK skipped \in SUBSET Unreadable :
            faults' = IF skipped = {} THEN faults ELSE faults + 1
      BY <1>14 DEF Restart
    <3>2. skipped # {} => faults < MaxFaults
      BY <3>1 DEF Unreadable
    <3>3. faults \in 0..MaxFaults
      BY DEF IInv, TypeOK
    <3> QED BY <3>1, <3>2, <3>3
  <2>2. promised' \in [Users -> Pairs \cup {NoPair}]
    BY <1>14 DEF IInv, TypeOK, Restart
  <2> QED BY <1>14, <2>1, <2>2 DEF IInv, TypeOK, Restart, Parsed
<1>15. CASE UNCHANGED vars
  BY <1>15 DEF IInv, TypeOK, vars
<1>16. ASSUME NEW w \in Workers, Worker(w) PROVE TypeOK'
  BY <1>1, <1>2, <1>3, <1>4, <1>5, <1>6, <1>7, <1>8, <1>9, <1>10, <1>11, <1>12, <1>13,
     <1>16 DEF Worker
<1> QED BY <1>14, <1>15, <1>16 DEF Next

(* A request reaches its writes only with the keys it is going to write. *)
LEMMA HandStep ==
  ASSUME IInv, [Next]_vars
  PROVE  HandInv'
<1> USE DEF histVars, counters
<1>1. ASSUME NEW w \in Workers,
             \A x \in Workers \ {w} :
               worker'[x].at = worker[x].at /\ worker'[x].player = worker[x].player
                 /\ worker'[x].pair = worker[x].pair
                 /\ worker'[x].op = worker[x].op /\ worker'[x].user = worker[x].user,
             worker'[w].at = "load" => Accepted(worker'[w].op, worker'[w].user),
             worker'[w].at = "drawMoon" => worker'[w].player \in Keys,
             worker'[w].at \in {"open", "write"} => worker'[w].pair \in Pairs
      PROVE  HandInv'
  BY <1>1 DEF IInv, HandInv, At
<1>2. ASSUME NEW w \in Workers, NEW new, worker' = [worker EXCEPT ![w] = new],
             new.at \notin {"drawMoon", "open", "write", "load"}
      PROVE  HandInv'
  BY <1>1, <1>2 DEF IInv, TypeOK
<1>3. ASSUME NEW w \in Workers, NEW op \in Operations, NEW u \in Users, Begin(w, op, u)
      PROVE  HandInv'
  BY <1>2, <1>3, RequestType, RefreshingType DEF Begin
<1>4. ASSUME NEW w \in Workers, NEW step \in Steps \ {"drawMoon", "open", "write", "load"},
             Respond(w) \/ Goto(w, step), worker[w] \in Requests
      PROVE  HandInv'
  BY <1>2, <1>4 DEF Respond, Goto, Idle, Requests
<1>5. ASSUME NEW w \in Workers, SwapKeys(w) \/ GiveUp(w)
      PROVE  HandInv'
  <2>1. worker[w] \in Requests /\ worker[w] # Idle
    BY <1>5, RequestFacts DEF IInv, SwapKeys, GiveUp, At, Steps
  <2>2. Respond(w) \/ \E step \in Steps \ {"drawMoon", "open", "write", "load"} : Goto(w, step)
    BY <1>5, <2>1 DEF SwapKeys, AfterRefresh, GiveUp, Steps
  <2> QED BY <1>4, <2>1, <2>2 DEF Steps
<1>6. ASSUME NEW w \in Workers, NEW u \in Listed, ReadKeyFile(w, u)
      PROVE  HandInv'
  <2>1. worker[w] \in Requests
    BY <1>6, RequestFacts DEF IInv, ReadKeyFile, At, Steps
  <2> DEFINE new == [worker[w] EXCEPT !.unread = Unread(w, u),
                                      !.found = @ \cup Parsed(files[u])]
  <2>2. new.at = "read"
    BY <1>6, <2>1 DEF ReadKeyFile, At, Requests
  <2>3. worker' = [worker EXCEPT ![w] = new]
    BY <1>6, <2>1 DEF IInv, TypeOK, ReadKeyFile
  <2> HIDE DEF new
  <2> QED BY <1>2, <2>2, <2>3
<1>7. ASSUME NEW w \in Workers, NEW k \in Keys, DrawPlayer(w, k) \/ DrawMoon(w, k)
      PROVE  HandInv'
  <2>1. worker[w] \in Requests /\ (At(w, "drawMoon") => worker[w].player \in Keys)
    BY <1>7, RequestFacts DEF IInv, HandInv, DrawPlayer, DrawMoon, At, Steps
  <2> QED BY <1>1, <1>7, <2>1 DEF IInv, TypeOK, DrawPlayer, DrawMoon, Requests, Pairs
<1>8. ASSUME NEW w \in Workers, Load(w)
      PROVE  HandInv'
  <2>1. worker[w] \in Requests
    BY <1>8, RequestFacts DEF IInv, Load, At, Steps
  <2>2. CASE Respond(w)
    BY <1>2, <2>2 DEF Respond, Idle
  <2>3. CASE ~Respond(w)
    BY <1>1, <1>8, <2>1, <2>3 DEF IInv, TypeOK, Load, Requests
  <2> QED BY <2>2, <2>3
<1>9. ASSUME NEW w \in Workers, Open(w)
      PROVE  HandInv'
  <2>1. worker[w] \in Requests /\ worker[w].pair \in Pairs
    BY <1>9, RequestFacts DEF IInv, HandInv, Open, At, Steps
  <2> QED BY <1>1, <1>9, <2>1 DEF IInv, TypeOK, Open, Requests
<1>10. ASSUME NEW w \in Workers, Write(w)
      PROVE  HandInv'
  <2>1. worker[w] \in Requests
    BY <1>10, RequestFacts DEF IInv, Write, At, Steps
  <2> QED BY <1>2, <1>10, <2>1, RefreshingType DEF Write, AfterWrite, Respond, Idle
<1>11. ASSUME NEW w \in Workers, Remove(w)
      PROVE  HandInv'
  <2>1. worker'[w].at = "idle"
    BY <1>11 DEF IInv, TypeOK, Remove, Idle
  <2>2. ASSUME NEW x \in Workers \ {w}
        PROVE  /\ worker'[x].at = worker[x].at
               /\ worker'[x].op = worker[x].op /\ worker'[x].user = worker[x].user
               /\ worker'[x].player = worker[x].player
               /\ worker'[x].pair = worker[x].pair
    <3>1. CASE At(x, "write")
      <4>1. worker[x] \in Requests
        BY <3>1, RequestFacts DEF IInv, At, Steps
      <4> QED BY <1>11, <4>1 DEF Remove, Requests
    <3>2. CASE ~At(x, "write")
      BY <1>11, <3>2 DEF Remove
    <3> QED BY <3>1, <3>2
  <2> QED BY <1>1, <2>1, <2>2
<1>12. ASSUME NEW w \in Workers, NEW u \in Listed, SkipKeyFile(w, u)
       PROVE  HandInv'
  <2>1. worker[w] \in Requests /\ worker[w].at = "read"
    BY <1>12, RequestFacts DEF IInv, SkipKeyFile, Fails, Steps
  <2> DEFINE new == [worker[w] EXCEPT !.unread = Unread(w, u)]
  <2>2. new.at = "read"
    BY <2>1 DEF Requests
  <2>3. worker' = [worker EXCEPT ![w] = new]
    BY <1>12, <2>1 DEF IInv, TypeOK, SkipKeyFile
  <2> HIDE DEF new
  <2> QED BY <1>2, <2>2, <2>3
<1>13. ASSUME NEW w \in Workers, Unwritten(w) \/ Abort(w)
       PROVE  HandInv'
  <2>1. worker[w] \in Requests
    BY <1>13, RequestFacts DEF IInv, Unwritten, Abort, Fails, Steps
  <2>2. Respond(w) \/ worker' = [worker EXCEPT ![w] = Refreshing(worker[w])]
    BY <1>13, <2>1 DEF IInv, TypeOK, Unwritten, AfterWrite, Abort
  <2> QED BY <1>2, <2>1, <2>2, RefreshingType DEF Respond, Idle
<1>14. ASSUME NEW w \in Workers, FileExists(w)
       PROVE  HandInv'
  <2>1. worker[w] \in Requests
    BY <1>14, RequestFacts DEF IInv, FileExists, At, Steps
  <2>2. CASE Respond(w)
    BY <1>2, <2>2 DEF Respond, Idle
  <2>3. CASE ~Respond(w)
    <3>1. Accepted(worker[w].op, worker[w].user)
          /\ \E step \in {"remove", "load"} : Goto(w, step)
      BY <1>14, <2>3 DEF FileExists
    <3>2. PICK step \in {"remove", "load"} : Goto(w, step)
      BY <3>1
    <3>3. /\ worker'[w].at = step /\ worker'[w].op = worker[w].op
          /\ worker'[w].user = worker[w].user
          /\ \A x \in Workers \ {w} : worker'[x] = worker[x]
      BY <2>1, <3>2 DEF IInv, TypeOK, Goto, Requests
    <3> QED BY <1>1, <3>1, <3>2, <3>3
  <2> QED BY <2>2, <2>3
<1>15. CASE Restart
  BY <1>15 DEF HandInv, At, Restart, Idle
<1>16. CASE UNCHANGED vars
  BY <1>16 DEF IInv, HandInv, At, vars
<1>17. ASSUME NEW w \in Workers, Worker(w) PROVE HandInv'
  BY <1>3, <1>5, <1>6, <1>7, <1>8, <1>9, <1>10, <1>11, <1>12, <1>13, <1>14, <1>17
  DEF Worker
<1> QED BY <1>15, <1>16, <1>17 DEF Next

(* The steps of a thread that change no file and are in no refresh afterwards. *)
LEMMA NotReadingAfter ==
  ASSUME IInv, NEW w \in Workers,
         SwapKeys(w) \/ GiveUp(w) \/ FileExists(w) \/ Load(w) \/ Abort(w)
           \/ \E k \in Keys : DrawPlayer(w, k) \/ DrawMoon(w, k)
  PROVE  /\ worker'[w].at # "read"
         /\ \A x \in Workers \ {w} :
              worker'[x] = worker[x] /\ dropped'[x] = dropped[x] /\ missed'[x] = missed[x]
         /\ UNCHANGED files
<1> USE DEF histVars, counters
<1>1. worker[w] \in Requests
  BY RequestFacts
     DEF IInv, SwapKeys, GiveUp, FileExists, Load, Abort, Fails, DrawPlayer, DrawMoon,
         At, Steps
<1> DEFINE Left == /\ worker'[w].at # "read"
                   /\ \A x \in Workers \ {w} : worker'[x] = worker[x]
<1>2. ASSUME Respond(w) PROVE Left
  BY <1>2 DEF IInv, TypeOK, Respond, Idle
<1>3. ASSUME NEW step \in Steps \ {"read"}, Goto(w, step) PROVE Left
  BY <1>1, <1>3 DEF IInv, TypeOK, Goto, Requests
<1>4. ASSUME SwapKeys(w) \/ GiveUp(w) \/ FileExists(w) \/ Abort(w) PROVE Left
  BY <1>2, <1>3, <1>4 DEF SwapKeys, AfterRefresh, GiveUp, FileExists, Abort, Steps
<1>5. ASSUME Load(w) PROVE Left
  <2>1. ASSUME ~Respond(w) PROVE Left
    BY <1>1, <1>5, <2>1 DEF IInv, TypeOK, Load, Requests
  <2> QED BY <1>2, <2>1
<1>6. ASSUME NEW k \in Keys, DrawPlayer(w, k) PROVE Left
  BY <1>1, <1>6 DEF IInv, TypeOK, DrawPlayer, Requests
<1>7. ASSUME NEW k \in Keys, DrawMoon(w, k) PROVE Left
  BY <1>1, <1>7 DEF IInv, TypeOK, DrawMoon, Requests
<1>8. UNCHANGED files
  BY DEF SwapKeys, GiveUp, FileExists, Load, Abort, DrawPlayer, DrawMoon
<1>9. \A x \in Workers \ {w} : dropped'[x] = dropped[x] /\ missed'[x] = missed[x]
  BY DEF IInv, TypeOK, SwapKeys, GiveUp, FileExists, Load, Abort, DrawPlayer, DrawMoon
<1> QED BY <1>4, <1>5, <1>6, <1>7, <1>8, <1>9

(* Removing a file cuts off a writer and disturbs no refresh. *)
LEMMA RemoveFacts ==
  ASSUME IInv, NEW w \in Workers, Remove(w)
  PROVE  /\ worker'[w].at # "read"
         /\ \A x \in Workers : worker'[x].at = "read" => worker'[x] = worker[x]
<1>1. worker'[w] = Idle
  BY DEF IInv, TypeOK, Remove
<1>2. ASSUME NEW x \in Workers, worker'[x].at = "read"
      PROVE  worker'[x] = worker[x]
  <2>1. x # w
    BY <1>1, <1>2 DEF Idle
  <2>2. CASE At(x, "write")
    <3>1. worker[x] \in Requests
      BY <2>2, RequestFacts DEF IInv, At, Steps
    <3>2. worker'[x].at = "write"
      BY <2>1, <2>2, <3>1 DEF Remove, Requests, At
    <3> QED BY <1>2, <3>2
  <2>3. CASE ~At(x, "write")
    BY <2>1, <2>3 DEF Remove
  <2> QED BY <2>2, <2>3
<1> QED BY <1>1, <1>2 DEF Idle

(* What a refresh has found stays accurate while it goes on. *)
LEMMA ScanStep ==
  ASSUME IInv, [Next]_vars
  PROVE  ScanInv'
<1> USE DEF histVars, counters
<1>1. ASSUME NEW w \in Workers, worker'[w].at # "read",
             \A x \in Workers \ {w} : worker'[x] = worker[x] /\ missed'[x] = missed[x],
             UNCHANGED files
      PROVE  ScanInv'
  BY <1>1, ListedAssumption DEF IInv, ScanInv, AlreadyRead, At
<1>2. ASSUME NEW w \in Workers, NEW op \in Operations, NEW u \in Users, Begin(w, op, u)
      PROVE  ScanInv'
  <2>1. /\ worker'[w].at = "read" => worker'[w].unread = Listed
        /\ \A x \in Workers \ {w} : worker'[x] = worker[x] /\ missed'[x] = missed[x]
        /\ UNCHANGED files
    BY <1>2, RequestType, RefreshingType DEF IInv, TypeOK, Begin
  <2> QED BY <2>1 DEF IInv, ScanInv, AlreadyRead, At
<1>3. ASSUME NEW w \in Workers, NEW u \in Listed, ReadKeyFile(w, u)
      PROVE  ScanInv'
  <2>1. worker[w] \in Requests
    BY <1>3, RequestFacts DEF IInv, ReadKeyFile, At, Steps
  <2>2. /\ worker'[w].unread = worker[w].unread \ {u}
        /\ worker'[w].found = worker[w].found \cup Parsed(files[u])
        /\ \A x \in Workers \ {w} : worker'[x] = worker[x]
        /\ worker[w].at = "read" /\ UNCHANGED <<files, missed>>
    BY <1>3, <2>1 DEF IInv, TypeOK, ReadKeyFile, Requests, Unread, At
  <2>3. ASSUME NEW v \in Listed, AlreadyRead(w, v)', files[v] \in Pairs
        PROVE  files[v] \in worker'[w].found \cup missed[w]
    <3>1. CASE v = u
      BY <2>2, <2>3, <3>1 DEF Parsed
    <3>2. CASE v # u
      BY <2>2, <2>3, <3>2 DEF IInv, ScanInv, AlreadyRead, At
    <3> QED BY <3>1, <3>2
  <2> QED BY <2>2, <2>3 DEF IInv, ScanInv, AlreadyRead, At
<1>4. ASSUME NEW w \in Workers,
             SwapKeys(w) \/ GiveUp(w) \/ FileExists(w) \/ Load(w) \/ Abort(w)
               \/ \E k \in Keys : DrawPlayer(w, k) \/ DrawMoon(w, k)
      PROVE  ScanInv'
  BY <1>1, <1>4, NotReadingAfter
<1>5. ASSUME NEW w \in Workers, Open(w)
      PROVE  ScanInv'
  <2>1. worker[w] \in Requests /\ worker[w].user \in Users
    BY <1>5, RequestFacts DEF IInv, Open, At, Steps
  <2>2. /\ worker'[w].at = "write" /\ UNCHANGED missed
        /\ \A x \in Workers \ {w} : worker'[x] = worker[x]
        /\ \A u \in Listed : files'[u] \in Pairs => files'[u] = files[u]
    BY <1>5, <2>1, ContentsAssumption, ListedAssumption DEF IInv, TypeOK, Open, Requests
  <2> QED BY <2>2 DEF IInv, ScanInv, AlreadyRead, At
<1>6. ASSUME NEW w \in Workers, Write(w)
      PROVE  ScanInv'
  <2> DEFINE u == worker[w].user
             p == worker[w].pair
  <2>1. worker[w] \in Requests /\ u \in Users
    BY <1>6, RequestFacts DEF IInv, Write, At, Steps
  <2>2. /\ worker'[w].at = "read" => worker'[w].unread = Listed
        /\ \A x \in Workers \ {w} : worker'[x] = worker[x]
    BY <1>6, <2>1, RefreshingType DEF IInv, TypeOK, Write, AfterWrite, Respond, Idle
  <2>3. CASE worker[w].linked
    <3>1. files' = [files EXCEPT ![u] = p]
          /\ \A x \in Workers \ {w} :
               missed'[x] = IF AlreadyRead(x, u) THEN missed[x] \cup {p} ELSE missed[x]
      BY <1>6, <2>3 DEF Write, NoteWritten
    <3>2. ASSUME NEW x \in Workers \ {w}, NEW v \in Listed, AlreadyRead(x, v)',
                 files'[v] \in Pairs
          PROVE  files'[v] \in worker'[x].found \cup missed'[x]
      <4>1. AlreadyRead(x, v) /\ worker'[x] = worker[x]
        BY <2>2, <3>2 DEF AlreadyRead, At
      <4>2. CASE v = u
        BY <2>1, <3>1, <4>1, <4>2 DEF IInv, TypeOK
      <4>3. CASE v # u
        BY <3>1, <3>2, <4>1, <4>3, ListedAssumption DEF IInv, TypeOK, ScanInv
      <4> QED BY <4>2, <4>3
    <3> QED BY <2>2, <3>2 DEF ScanInv, AlreadyRead, At
  <2>4. CASE ~worker[w].linked
    <3>1. UNCHANGED files /\ \A x \in Workers \ {w} : missed'[x] = missed[x]
      BY <1>6, <2>4 DEF IInv, TypeOK, Write
    <3> QED BY <2>2, <3>1 DEF IInv, ScanInv, AlreadyRead, At
  <2> QED BY <2>3, <2>4
<1>7. ASSUME NEW w \in Workers, Remove(w)
      PROVE  ScanInv'
  <2>1. worker[w].user \in Users /\ UNCHANGED missed
    BY <1>7, RequestFacts DEF IInv, Remove, At, Steps
  <2>2. \A v \in Listed : files'[v] \in Pairs => files'[v] = files[v]
    BY <1>7, <2>1, ContentsAssumption, ListedAssumption DEF IInv, TypeOK, Remove
  <2>3. \A x \in Workers : worker'[x].at = "read" => worker'[x] = worker[x]
    BY <1>7, RemoveFacts
  <2> QED BY <2>1, <2>2, <2>3 DEF IInv, ScanInv, AlreadyRead, At
<1>8. ASSUME NEW w \in Workers, NEW u \in Listed, SkipKeyFile(w, u)
      PROVE  ScanInv'
  <2>1. worker[w] \in Requests /\ worker[w].at = "read"
    BY <1>8, RequestFacts DEF IInv, SkipKeyFile, Fails, Steps
  <2>2. /\ worker'[w].unread = worker[w].unread \ {u}
        /\ worker'[w].found = worker[w].found
        /\ missed'[w] = missed[w] \cup Parsed(files[u])
        /\ \A x \in Workers \ {w} : worker'[x] = worker[x] /\ missed'[x] = missed[x]
        /\ UNCHANGED files
    BY <1>8, <2>1 DEF IInv, TypeOK, SkipKeyFile, Requests, Unread
  <2>3. ASSUME NEW v \in Listed, AlreadyRead(w, v)', files[v] \in Pairs
        PROVE  files[v] \in worker'[w].found \cup missed'[w]
    <3>1. CASE v = u
      BY <2>2, <2>3, <3>1 DEF Parsed
    <3>2. CASE v # u
      BY <2>1, <2>2, <2>3, <3>2 DEF IInv, ScanInv, AlreadyRead, At
    <3> QED BY <3>1, <3>2
  <2> QED BY <2>2, <2>3 DEF IInv, ScanInv, AlreadyRead, At
<1>9. ASSUME NEW w \in Workers, Unwritten(w)
      PROVE  ScanInv'
  <2>1. worker[w] \in Requests
    BY <1>9, RequestFacts DEF IInv, Unwritten, Fails, Steps
  <2>2. /\ worker'[w].at = "read" => worker'[w].unread = Listed
        /\ \A x \in Workers \ {w} : worker'[x] = worker[x]
        /\ UNCHANGED <<files, missed>>
    BY <1>9, <2>1, RefreshingType DEF IInv, TypeOK, Unwritten, AfterWrite, Respond, Idle
  <2> QED BY <2>2 DEF IInv, ScanInv, AlreadyRead, At
<1>10. CASE Restart
  BY <1>10 DEF ScanInv, AlreadyRead, At, Restart, Idle
<1>11. CASE UNCHANGED vars
  BY <1>11 DEF IInv, ScanInv, AlreadyRead, At, vars
<1>12. ASSUME NEW w \in Workers, Worker(w) PROVE ScanInv'
  BY <1>2, <1>3, <1>4, <1>5, <1>6, <1>7, <1>8, <1>9, <1>12 DEF Worker
<1> QED BY <1>10, <1>11, <1>12 DEF Next

(* What a refresh has found is on disk, or left it after it was read. *)
LEMMA FoundStep ==
  ASSUME IInv, [Next]_vars
  PROVE  FoundInv'
<1> USE DEF histVars, counters
<1>1. ASSUME NEW w \in Workers,
             worker'[w].at = "read" => worker'[w].found = {},
             \A x \in Workers \ {w} : worker'[x] = worker[x] /\ dropped'[x] = dropped[x],
             UNCHANGED files
      PROVE  FoundInv'
  BY <1>1 DEF IInv, FoundInv, At
<1>2. ASSUME NEW w \in Workers, NEW op \in Operations, NEW u \in Users, Begin(w, op, u)
      PROVE  FoundInv'
  <2>1. /\ worker'[w].at = "read" => worker'[w].found = {}
        /\ \A x \in Workers \ {w} : worker'[x] = worker[x]
        /\ UNCHANGED <<files, dropped>>
    BY <1>2, RequestType, RefreshingType DEF IInv, TypeOK, Begin
  <2> QED BY <1>1, <2>1
<1>3. ASSUME NEW w \in Workers, NEW u \in Listed, ReadKeyFile(w, u)
      PROVE  FoundInv'
  <2>1. worker[w] \in Requests
    BY <1>3, RequestFacts DEF IInv, ReadKeyFile, At, Steps
  <2>2. /\ worker'[w].unread = worker[w].unread \ {u}
        /\ worker'[w].found = worker[w].found \cup Parsed(files[u])
        /\ \A x \in Workers \ {w} : worker'[x] = worker[x]
        /\ worker[w].at = "read" /\ UNCHANGED <<files, dropped>>
    BY <1>3, <2>1 DEF IInv, TypeOK, ReadKeyFile, Requests, Unread, At
  <2> QED BY <2>2 DEF IInv, FoundInv, Parsed, At
<1>4. ASSUME NEW w \in Workers,
             SwapKeys(w) \/ GiveUp(w) \/ FileExists(w) \/ Load(w) \/ Abort(w)
               \/ \E k \in Keys : DrawPlayer(w, k) \/ DrawMoon(w, k)
      PROVE  FoundInv'
  BY <1>1, <1>4, NotReadingAfter
<1>5. ASSUME NEW w \in Workers, NEW u \in Users, NoteDropped(u),
             worker'[w].at = "read" => worker'[w].found = {},
             \A x \in Workers \ {w} : worker'[x].at = "read" => worker'[x] = worker[x],
             \A v \in Listed \ {u} : files'[v] = files[v]
      PROVE  FoundInv'
  <2>1. ASSUME NEW x \in Workers \ {w}, worker'[x].at = "read",
               NEW p \in worker'[x].found
        PROVE  p \in dropped'[x] \/ \E v \in Listed \ worker'[x].unread : files'[v] = p
    <3>1. At(x, "read") /\ worker'[x] = worker[x] /\ p \in Pairs
      BY <1>5, <2>1, RequestFacts DEF IInv, At, Steps
    <3>2. CASE p \in dropped[x]
      BY <1>5, <3>2 DEF IInv, TypeOK, NoteDropped
    <3>3. ASSUME NEW v \in Listed \ worker[x].unread, files[v] = p
          PROVE  p \in dropped'[x] \/ files'[v] = p
      <4>1. CASE v = u
        BY <1>5, <3>1, <3>3, <4>1 DEF IInv, TypeOK, NoteDropped, AlreadyRead
      <4> QED BY <1>5, <3>3, <4>1
    <3> QED BY <2>1, <3>1, <3>2, <3>3 DEF IInv, FoundInv
  <2> QED BY <1>5, <2>1 DEF FoundInv, At
<1>6. ASSUME NEW w \in Workers, Open(w)
      PROVE  FoundInv'
  <2>1. worker[w] \in Requests /\ worker[w].user \in Users
    BY <1>6, RequestFacts DEF IInv, Open, At, Steps
  <2>2. /\ worker'[w].at = "write"
        /\ \A x \in Workers \ {w} : worker'[x] = worker[x]
        /\ \A v \in Listed \ {worker[w].user} : files'[v] = files[v]
    BY <1>6, <2>1, ListedAssumption DEF IInv, TypeOK, Open, Requests
  <2> QED BY <1>5, <1>6, <2>1, <2>2 DEF Open
<1>7. ASSUME NEW w \in Workers, Write(w)
      PROVE  FoundInv'
  <2>1. worker[w] \in Requests /\ worker[w].user \in Users
    BY <1>7, RequestFacts DEF IInv, Write, At, Steps
  <2>2. /\ worker'[w].at = "read" => worker'[w].found = {}
        /\ \A x \in Workers \ {w} : worker'[x] = worker[x]
    BY <1>7, <2>1, RefreshingType DEF IInv, TypeOK, Write, AfterWrite, Respond, Idle
  <2>3. CASE worker[w].linked
    <3>1. \A v \in Listed \ {worker[w].user} : files'[v] = files[v]
      BY <1>7, <2>1, <2>3, ListedAssumption DEF IInv, TypeOK, Write
    <3> QED BY <1>5, <1>7, <2>1, <2>2, <2>3, <3>1 DEF Write
  <2>4. CASE ~worker[w].linked
    BY <1>1, <1>7, <2>2, <2>4 DEF Write
  <2> QED BY <2>3, <2>4
<1>8. ASSUME NEW w \in Workers, Remove(w)
      PROVE  FoundInv'
  <2>1. worker[w].user \in Users
    BY <1>8, RequestFacts DEF IInv, Remove, At, Steps
  <2>2. \A v \in Listed \ {worker[w].user} : files'[v] = files[v]
    BY <1>8, <2>1, ListedAssumption DEF IInv, TypeOK, Remove
  <2> QED BY <1>5, <1>8, <2>1, <2>2, RemoveFacts DEF Remove
<1>9. ASSUME NEW w \in Workers, NEW u \in Listed, SkipKeyFile(w, u)
      PROVE  FoundInv'
  <2>1. worker[w] \in Requests /\ worker[w].at = "read"
    BY <1>9, RequestFacts DEF IInv, SkipKeyFile, Fails, Steps
  <2>2. /\ worker'[w].unread = worker[w].unread \ {u}
        /\ worker'[w].found = worker[w].found
        /\ \A x \in Workers \ {w} : worker'[x] = worker[x]
        /\ UNCHANGED <<files, dropped>>
    BY <1>9, <2>1 DEF IInv, TypeOK, SkipKeyFile, Requests, Unread
  <2> QED BY <2>1, <2>2 DEF IInv, FoundInv, At
<1>10. ASSUME NEW w \in Workers, Unwritten(w)
       PROVE  FoundInv'
  <2>1. worker[w] \in Requests
    BY <1>10, RequestFacts DEF IInv, Unwritten, Fails, Steps
  <2>2. /\ worker'[w].at = "read" => worker'[w].found = {}
        /\ \A x \in Workers \ {w} : worker'[x] = worker[x]
        /\ UNCHANGED <<files, dropped>>
    BY <1>10, <2>1, RefreshingType DEF IInv, TypeOK, Unwritten, AfterWrite, Respond, Idle
  <2> QED BY <1>1, <2>2
<1>11. CASE Restart
  BY <1>11 DEF FoundInv, At, Restart, Idle
<1>12. CASE UNCHANGED vars
  BY <1>12 DEF IInv, FoundInv, At, vars
<1>13. ASSUME NEW w \in Workers, Worker(w) PROVE FoundInv'
  BY <1>2, <1>3, <1>4, <1>6, <1>7, <1>8, <1>9, <1>10, <1>13 DEF Worker
<1> QED BY <1>11, <1>12, <1>13 DEF Next

(* The table holds nothing that had left the disk before it was read. *)
LEMMA DeletedForgottenStep ==
  ASSUME IInv, [Next]_vars
  PROVE  DeletedForgotten'
<1> USE DEF histVars, counters
<1>1. ASSUME UNCHANGED <<files, table, gone>> PROVE DeletedForgotten'
  BY <1>1 DEF IInv, DeletedForgotten
<1>2. ASSUME NEW w \in Workers, SwapKeys(w)
      PROVE  DeletedForgotten'
  BY <1>2 DEF IInv, FoundInv, DeletedForgotten, SwapKeys, At
<1>3. ASSUME NEW u \in Users, NoteDropped(u), UNCHANGED table,
             \A v \in Users \ {u} : files'[v] = files[v]
      PROVE  DeletedForgotten'
  BY <1>3, ListedAssumption DEF IInv, TypeOK, DeletedForgotten, NoteDropped
<1>4. ASSUME NEW w \in Workers, Open(w) \/ Write(w) \/ Remove(w)
      PROVE  DeletedForgotten'
  <2>1. worker[w].user \in Users
    BY <1>4, RequestFacts DEF IInv, Open, Write, Remove, At, Steps
  <2> QED BY <1>1, <1>3, <1>4, <2>1 DEF IInv, TypeOK, Open, Write, Remove
<1>5. CASE Restart
  BY <1>5, ContentsAssumption DEF DeletedForgotten, Restart, Parsed
<1>6. ASSUME NEW w \in Workers, Worker(w) PROVE DeletedForgotten'
  <2>1. CASE ~(SwapKeys(w) \/ Open(w) \/ Write(w) \/ Remove(w))
    <3>1. UNCHANGED <<files, table, gone>>
      BY <1>6, <2>1 DEF Worker, Begin, ReadKeyFile, DrawPlayer, DrawMoon, GiveUp,
                        FileExists, Load, SkipKeyFile, Unwritten, Abort
    <3> QED BY <1>1, <3>1
  <2> QED BY <1>2, <1>4, <2>1
<1> QED BY <1>1, <1>5, <1>6 DEF Next, vars

(* The steps that change no file, and of these the ones that also leave alone what
   was promised.                                                           *)
LEMMA FilesUnchanged ==
  ASSUME NEW w \in Workers, Worker(w), ~Open(w), ~Write(w), ~Remove(w)
  PROVE  /\ UNCHANGED files
         /\ ~Unwritten(w) /\ ~Abort(w) => UNCHANGED promised
BY DEF Worker, Begin, ReadKeyFile, SkipKeyFile, SwapKeys, DrawPlayer, DrawMoon, GiveUp,
       FileExists, Load, Unwritten, Abort, histVars

(* The table knows every pair on disk, but for what came after it. *)
LEMMA FilesKnownStep ==
  ASSUME IInv, [Next]_vars
  PROVE  FilesKnown'
<1> USE ListedAssumption DEF histVars, counters
<1>1. ASSUME UNCHANGED <<table, lacking, fresh>>,
             \A u \in Listed : files'[u] \in Pairs => files'[u] = files[u]
      PROVE  FilesKnown'
  BY <1>1 DEF IInv, FilesKnown
<1>2. ASSUME NEW w \in Workers, SwapKeys(w)
      PROVE  FilesKnown'
  BY <1>2 DEF IInv, ScanInv, AlreadyRead, FilesKnown, SwapKeys
<1>3. ASSUME NEW w \in Workers, Open(w) \/ Remove(w)
      PROVE  FilesKnown'
  <2>1. worker[w].user \in Users
    BY <1>3, RequestFacts DEF IInv, Open, Remove, At, Steps
  <2>2. \A u \in Listed : files'[u] \in Pairs => files'[u] = files[u]
    BY <1>3, <2>1, ContentsAssumption DEF IInv, TypeOK, Open, Remove
  <2> QED BY <1>1, <1>3, <2>2 DEF Open, Remove
<1>4. ASSUME NEW w \in Workers, Write(w)
      PROVE  FilesKnown'
  <2>1. worker[w].user \in Users
    BY <1>4, RequestFacts DEF IInv, Write, At, Steps
  <2> QED BY <1>4, <2>1 DEF IInv, TypeOK, FilesKnown, Write, NoteWritten
<1>5. CASE Restart
  BY <1>5 DEF FilesKnown, Restart, Parsed
<1>6. ASSUME NEW w \in Workers, Worker(w) PROVE FilesKnown'
  <2>1. CASE SwapKeys(w) \/ Open(w) \/ Remove(w) \/ Write(w)
    BY <1>2, <1>3, <1>4, <2>1
  <2>2. CASE ~(SwapKeys(w) \/ Open(w) \/ Remove(w) \/ Write(w))
    <3>1. UNCHANGED <<files, table, lacking, fresh>>
      BY <1>6, <2>2 DEF Worker, Begin, ReadKeyFile, SkipKeyFile, DrawPlayer, DrawMoon,
                        GiveUp, FileExists, Load, Unwritten, Abort
    <3> QED BY <1>1, <3>1
  <2> QED BY <2>1, <2>2
<1> QED BY <1>1, <1>5, <1>6 DEF Next, vars

(* A thread that is in the middle of a refresh, and does not end it with
   this step, is in the middle of the same refresh after it.               *)
LEMMA StillReading ==
  ASSUME IInv, NEW x \in Workers, Worker(x), ~SwapKeys(x), NEW w \in Workers, At(w, "read"),
         Abort(x) => w # x
  PROVE  /\ At(w, "read")'
         /\ worker'[w].pair = worker[w].pair /\ worker'[w].user = worker[w].user
<1> USE DEF histVars, counters
<1>1. worker[w] \in Requests /\ worker[w] # Idle
  BY RequestFacts DEF IInv, At, Steps
<1>2. CASE w # x
  BY <1>2 DEF IInv, TypeOK, Worker, Begin, ReadKeyFile, SkipKeyFile, DrawPlayer, DrawMoon,
              GiveUp, FileExists, Load, Open, Write, AfterWrite, Unwritten, Remove, Abort,
              Goto, Respond, At
<1>3. CASE w = x
  <2>1. PICK u \in Listed : ReadKeyFile(w, u) \/ SkipKeyFile(w, u)
    BY <1>1, <1>3 DEF Worker, Begin, DrawPlayer, DrawMoon, GiveUp, FileExists, Load, Open,
                      Write, Unwritten, Fails, Remove, At
  <2>2. /\ worker'[w].at = worker[w].at
        /\ worker'[w].pair = worker[w].pair /\ worker'[w].user = worker[w].user
    BY <1>1, <2>1 DEF IInv, TypeOK, ReadKeyFile, SkipKeyFile, Requests
  <2> QED BY <2>2 DEF At
<1> QED BY <1>2, <1>3

(* A pair that was promised and is in its file remains known, but for a refresh
   that missed it.                                                         *)
LEMMA PromiseStep ==
  ASSUME IInv, [Next]_vars
  PROVE  WrittenPromiseKept'
<1> USE DEF histVars, counters
<1> SUFFICES ASSUME NEW u \in Listed, promised'[u] # NoPair, files'[u] = promised'[u]
             PROVE  promised'[u] \in table' \cup lacking' \/ Publishing(u)'
  BY DEF WrittenPromiseKept
<1> u \in Users
  BY ListedAssumption
<1>1. ASSUME NEW w \in Workers, Worker(w), ~SwapKeys(w), Abort(w) => worker[w].pair # promised[u],
             promised'[u] = promised[u], files[u] = promised[u]
      PROVE  promised'[u] \in table' \cup lacking' \/ Publishing(u)'
  <2>1. UNCHANGED <<table, lacking>>
    BY <1>1 DEF Worker, Begin, ReadKeyFile, SkipKeyFile, DrawPlayer, DrawMoon, GiveUp,
                FileExists, Load, Open, Write, Unwritten, Remove, Abort
  <2>2. CASE promised[u] \in table \cup lacking
    BY <1>1, <2>1, <2>2
  <2>3. CASE Publishing(u)
    <3>1. PICK x \in Workers :
            At(x, "read") /\ worker[x].user = u /\ worker[x].pair = promised[u]
      BY <2>3 DEF Publishing
    <3>2. /\ At(x, "read")'
          /\ worker'[x].pair = worker[x].pair /\ worker'[x].user = worker[x].user
      BY <1>1, <3>1, StillReading
    <3> QED BY <1>1, <3>1, <3>2 DEF Publishing
  <2> QED BY <1>1, <2>2, <2>3 DEF IInv, WrittenPromiseKept
<1>2. ASSUME NEW w \in Workers, SwapKeys(w)
      PROVE  promised'[u] \in table' \cup lacking'
  <2>1. promised'[u] = files[u] /\ files[u] \in Pairs
    BY <1>2 DEF IInv, TypeOK, SwapKeys
  <2> QED BY <1>2, <2>1 DEF IInv, ScanInv, AlreadyRead, SwapKeys
<1>3. ASSUME NEW w \in Workers, Write(w) \/ Unwritten(w), worker[w].op = "create",
             worker[w].user = u, promised'[u] = worker[w].pair
      PROVE  Publishing(u)'
  <2>1. worker[w] \in Requests
    BY <1>3, RequestFacts DEF IInv, Write, Unwritten, Fails, At, Steps
  <2>2. worker' = [worker EXCEPT ![w] = Refreshing(worker[w])]
    BY <1>3, <2>1 DEF IInv, TypeOK, Write, Unwritten, AfterWrite
  <2>3. worker'[w] = Refreshing(worker[w])
    BY <2>2 DEF IInv, TypeOK
  <2>4. worker'[w].user = worker[w].user
    BY <2>1, <2>3 DEF Refreshing, Requests
  <2>5. worker'[w].at = "read" /\ worker'[w].pair = worker[w].pair
    BY <2>1, <2>3, RefreshingType
  <2> QED BY <1>3, <2>4, <2>5 DEF Publishing, At
<1>4. ASSUME NEW w \in Workers, Open(w) \/ Remove(w)
      PROVE  promised'[u] = promised[u] /\ files'[u] = files[u]
  <2>1. worker[w].user \in Users
    BY <1>4, RequestFacts DEF IInv, Open, Remove, At, Steps
  <2> QED BY <1>4, <2>1 DEF IInv, TypeOK, Open, Remove
<1>5. ASSUME NEW w \in Workers, Write(w)
      PROVE  \/ promised'[u] = promised[u] /\ files'[u] = files[u]
             \/ worker[w].op = "create" /\ worker[w].user = u /\ promised'[u] = worker[w].pair
  <2>1. worker[w].user \in Users
    BY <1>5, RequestFacts DEF IInv, Write, At, Steps
  <2> QED BY <1>5, <2>1 DEF IInv, TypeOK, Write
<1>6. ASSUME NEW w \in Workers, Unwritten(w)
      PROVE  \/ promised'[u] = promised[u] /\ files'[u] = files[u]
             \/ worker[w].op = "create" /\ worker[w].user = u /\ promised'[u] = worker[w].pair
  <2>1. worker[w].user \in Users
    BY <1>6, RequestFacts DEF IInv, Unwritten, Fails, Steps
  <2> QED BY <1>6, <2>1 DEF IInv, TypeOK, Unwritten
<1>7. ASSUME NEW w \in Workers, Abort(w), ~SwapKeys(w)
      PROVE  promised'[u] \in table' \cup lacking' \/ Publishing(u)'
  <2>1. promised'[u] = promised[u] /\ files[u] = promised[u] /\ UNCHANGED <<table, lacking>>
    BY <1>7 DEF IInv, TypeOK, Abort
  <2>2. CASE promised[u] \in table \cup lacking
    BY <2>1, <2>2
  <2>3. CASE Publishing(u)
    <3>1. PICK x \in Workers :
            At(x, "read") /\ worker[x].user = u /\ worker[x].pair = promised[u]
      BY <2>3 DEF Publishing
    <3>2. x # w
      BY <1>7, <2>1, <3>1 DEF IInv, TypeOK, Abort, At
    <3>3. Worker(w)
      BY <1>7 DEF Worker
    <3>4. /\ At(x, "read")'
          /\ worker'[x].pair = worker[x].pair /\ worker'[x].user = worker[x].user
      BY <1>7, <3>1, <3>2, <3>3, StillReading
    <3> QED BY <2>1, <3>1, <3>4 DEF Publishing
  <2> QED BY <2>1, <2>2, <2>3 DEF IInv, WrittenPromiseKept
<1>8. CASE Restart
  BY <1>8 DEF IInv, TypeOK, Restart, Parsed
<1>9. CASE UNCHANGED vars
  BY <1>9 DEF IInv, WrittenPromiseKept, Publishing, At, vars
<1>10. ASSUME NEW w \in Workers, Worker(w)
       PROVE  promised'[u] \in table' \cup lacking' \/ Publishing(u)'
  <2>1. CASE SwapKeys(w)
    BY <1>2, <2>1
  <2>2. CASE Abort(w) /\ ~SwapKeys(w)
    BY <1>7, <2>2
  <2>3. CASE (Write(w) \/ Unwritten(w)) /\ worker[w].op = "create" /\ worker[w].user = u
             /\ promised'[u] = worker[w].pair
    BY <1>3, <2>3
  <2>4. CASE ~SwapKeys(w) /\ ~Abort(w) /\ promised'[u] = promised[u] /\ files'[u] = files[u]
    BY <1>1, <1>10, <2>4
  <2> QED BY <1>4, <1>5, <1>6, <1>10, <2>1, <2>2, <2>3, <2>4, FilesUnchanged
<1> QED BY <1>8, <1>9, <1>10 DEF Next

-----------------------------------------------------------------------------
(* The inductive invariant holds of every behaviour. *)
LEMMA Invariance == Spec => []IInv
<1>1. IInv /\ [Next]_vars => IInv'
  BY TypeStep, HandStep, ScanStep, FoundStep, FilesKnownStep,
     DeletedForgottenStep, PromiseStep
  DEF IInv
<1> QED BY <1>1, InitIInv, PTL DEF Spec

(* Every request of the API, and every restart, leaves the files, the table
   and the threads' own data well typed.                                   *)
THEOREM TypeCorrect == Spec => []TypeOK
<1>1. IInv => TypeOK
  BY DEF IInv
<1> QED BY <1>1, Invariance, PTL

(* However many refreshes overlap, with writes, deletions and restarts in
   any order, none of them drops a pair that was on disk when it read it.  *)
THEOREM NoPairForgotten == Spec => []FilesKnown
<1>1. IInv => FilesKnown
  BY DEF IInv
<1> QED BY <1>1, Invariance, PTL

(* A pair that has left the disk is out of the table as soon as a refresh is
   swapped in that reads the directory after that, however stale the one
   before it was.                                                          *)
THEOREM DeletedKeysForgotten == Spec => []DeletedForgotten
<1>1. IInv => DeletedForgotten
  BY DEF IInv
<1> QED BY <1>1, Invariance, PTL

(* The pair that /create answers with is in the table for as long as it is in
   its file in the directory, except after a refresh that had read the file
   before the pair was written, or could not read it, and is swapped in after
   /create's own.  Nothing is said of a pair that writeFile did not get into
   the file, or of an id whose file is elsewhere: these are never known.   *)
THEOREM WrittenPairsKnown == Spec => []WrittenPromiseKept
<1>1. IInv => WrittenPromiseKept
  BY DEF IInv
<1> QED BY <1>1, Invariance, PTL

-----------------------------------------------------------------------------
(* Requests about different ids, and the files of other ids, have keys in common
   only if these were drawn unseen.                                        *)
ApartInv ==
  /\ \A w \in Workers : worker[w] # Idle =>
       \A u \in Listed \ {worker[w].user} :
         files[u] \in Pairs => Held(w) \cap KeysOf({files[u]}) \subseteq unseen
  /\ \A w, x \in Workers :
       worker[w] # Idle /\ worker[x] # Idle /\ worker[w].user # worker[x].user =>
         Held(w) \cap Held(x) \subseteq unseen

(* The keys that a request has in hand. *)
HeldBy(r) == ({r.player} \ {NoKey}) \cup KeysOf({r.pair} \ {NoPair})

(* No two requests, and no request and file, come to share a key by the step. *)
Takes(w, k) ==
  /\ \A u \in Listed : files[u] \in Pairs /\ k \in KeysOf({files[u]}) => k \in unseen'
  /\ \A x \in Workers \ {w} : k \in Held(x) => k \in unseen'

Draws(w) ==
  \E k \in Keys :
    /\ Takes(w, k)
    /\ worker[w] # Idle /\ worker'[w] # Idle /\ worker'[w].user = worker[w].user
    /\ HeldBy(worker'[w]) \subseteq Held(w) \cup {k}
    /\ \A x \in Workers \ {w} : worker'[x] = worker[x]
    /\ UNCHANGED files

Loads(w) ==
  /\ worker[w] # Idle /\ worker'[w] # Idle /\ worker'[w].user = worker[w].user
  /\ worker[w].user \in Listed /\ files[worker[w].user] \in Pairs
  /\ HeldBy(worker'[w]) \subseteq Held(w) \cup KeysOf({files[worker[w].user]})
  /\ \A x \in Workers \ {w} : worker'[x] = worker[x]
  /\ UNCHANGED files

Keeps(w) ==
  \/ worker'[w] = Idle
  \/ HeldBy(worker'[w]) = {}
  \/ /\ worker[w] # Idle /\ worker'[w].user = worker[w].user
     /\ HeldBy(worker'[w]) \subseteq Held(w)

(* A file keeps its pair, loses it, or gets the one of a request about it. *)
Stored(u) ==
  files'[u] \in Pairs =>
    \/ files'[u] = files[u]
    \/ \E w \in Workers :
         /\ worker[w] # Idle /\ worker[w].user = u
         /\ KeysOf({files'[u]}) \subseteq Held(w)

(* A key that hasKey does not know is on no disk, or it was drawn unseen. *)
LEMMA DrawnFacts ==
  ASSUME IInv, NEW w \in Workers, NEW k \in Keys, ~HasKey(k), NoteDrawn(w, k)
  PROVE  Takes(w, k)
<1>1. ASSUME NEW u \in Listed, files[u] \in Pairs, k \in KeysOf({files[u]})
      PROVE  k \in unseen'
  <2>1. files[u] \in table \cup lacking \cup fresh
    BY <1>1 DEF IInv, FilesKnown
  <2>2. files[u] \in fresh \cup lacking
    BY <1>1, <2>1 DEF HasKey, KeysOf
  <2>3. k \in KeysOf(fresh \cup lacking)
    BY <1>1, <2>2 DEF KeysOf
  <2> QED BY <2>3 DEF NoteDrawn
<1>2. ASSUME NEW x \in Workers \ {w}, k \in Held(x)
      PROVE  k \in unseen'
  BY <1>2 DEF NoteDrawn
<1> QED BY <1>1, <1>2 DEF Takes

LEMMA HeldFacts ==
  ASSUME NEW w \in Workers
  PROVE  worker[w] # Idle => Held(w) = HeldBy(worker[w])
BY DEF Held, HeldBy

(* Each step of the threads, by what it does to the keys in their hands. *)
LEMMA HandSteps ==
  ASSUME IInv, [Next]_vars
  PROVE  /\ unseen \subseteq unseen'
         /\ \/ \E w \in Workers : Draws(w) \/ Loads(w)
            \/ /\ \A x \in Workers : Keeps(x)
               /\ \A u \in Listed : Stored(u)
<1> USE DEF histVars, counters
<1> TypeOK
  BY DEF IInv
<1>1. unseen \subseteq unseen'
  <2>1. ASSUME NEW w \in Workers, Worker(w) PROVE unseen \subseteq unseen'
    BY <2>1
    DEF Worker, Begin, ReadKeyFile, SwapKeys, DrawPlayer, DrawMoon, NoteDrawn, GiveUp,
        FileExists, Load, Open, Write, Remove, SkipKeyFile, Unwritten, Abort
  <2> QED BY <2>1 DEF Next, Restart, vars
<1> DEFINE Quiet == (\A x \in Workers : Keeps(x)) /\ (\A u \in Listed : Stored(u))
<1>2. \A x \in Workers : worker'[x] = worker[x] => Keeps(x)
  BY HeldFacts DEF Keeps
<1>3. UNCHANGED files => \A u \in Listed : Stored(u)
  BY DEF Stored
<1>4. ASSUME NEW w \in Workers, NEW step \in Steps, Respond(w) \/ Goto(w, step),
             worker[w] \in Requests, worker[w] # Idle, UNCHANGED files
      PROVE  Quiet
  <2>1. \A x \in Workers \ {w} : worker'[x] = worker[x]
    BY <1>4 DEF Respond, Goto, TypeOK
  <2>2. Keeps(w)
    <3>1. CASE Respond(w)
      BY <3>1 DEF Respond, Keeps, TypeOK
    <3>2. CASE Goto(w, step)
      <4>1. /\ worker'[w].user = worker[w].user /\ worker'[w].player = worker[w].player
            /\ worker'[w].pair = worker[w].pair
        BY <1>4, <3>2 DEF Goto, Requests, TypeOK
      <4>2. HeldBy(worker'[w]) = Held(w)
        BY <1>4, <4>1, HeldFacts DEF HeldBy
      <4> QED BY <1>4, <4>1, <4>2 DEF Keeps
    <3> QED BY <1>4, <3>1, <3>2
  <2> QED BY <1>2, <1>3, <1>4, <2>1, <2>2
<1>5. ASSUME NEW w \in Workers, SwapKeys(w) \/ GiveUp(w) \/ FileExists(w)
      PROVE  Quiet
  <2>1. worker[w] \in Requests /\ worker[w] # Idle
    BY <1>5, RequestFacts DEF SwapKeys, GiveUp, FileExists, At, Steps
  <2>2. (Respond(w) \/ \E step \in Steps : Goto(w, step)) /\ UNCHANGED files
    BY <1>5 DEF SwapKeys, AfterRefresh, GiveUp, FileExists, Steps
  <2> HIDE DEF Quiet
  <2>3. Respond(w) => Quiet
    BY <1>4, <2>1, <2>2 DEF Steps
  <2> QED BY <1>4, <2>1, <2>2, <2>3
<1>6. ASSUME NEW w \in Workers, NEW op \in Operations, NEW u \in Users, Begin(w, op, u)
      PROVE  Quiet
  <2>1. /\ \A x \in Workers \ {w} : worker'[x] = worker[x]
        /\ worker'[w] \in {Request(op, u), Refreshing(Request(op, u))} /\ UNCHANGED files
    BY <1>6 DEF Begin, TypeOK
  <2>2. /\ Request(op, u).player = NoKey /\ Request(op, u).pair = NoPair
        /\ Refreshing(Request(op, u)).player = NoKey /\ Refreshing(Request(op, u)).pair = NoPair
    BY DEF Request, Refreshing
  <2>3. HeldBy(worker'[w]) = {}
    BY <2>1, <2>2 DEF HeldBy, KeysOf
  <2> QED BY <1>2, <1>3, <2>1, <2>3 DEF Keeps
<1>7. ASSUME NEW w \in Workers, NEW new, worker[w] # Idle, new.user = worker[w].user,
             new.player = worker[w].player, new.pair = worker[w].pair,
             worker' = [worker EXCEPT ![w] = new]
      PROVE  \A x \in Workers : Keeps(x)
  <2>1. worker'[w] = new /\ \A x \in Workers \ {w} : worker'[x] = worker[x]
    BY <1>7 DEF TypeOK
  <2>2. HeldBy(new) = Held(w)
    BY <1>7, HeldFacts DEF HeldBy
  <2>3. Keeps(w)
    BY <1>7, <2>1, <2>2 DEF Keeps
  <2> QED BY <1>2, <2>1, <2>3
<1>8. ASSUME NEW w \in Workers, NEW u \in Listed, ReadKeyFile(w, u)
      PROVE  Quiet
  <2> DEFINE new == [worker[w] EXCEPT !.unread = Unread(w, u), !.found = @ \cup Parsed(files[u])]
  <2>1. worker[w] \in Requests /\ worker[w] # Idle
    BY <1>8, RequestFacts DEF ReadKeyFile, At, Steps
  <2>2. worker' = [worker EXCEPT ![w] = new] /\ UNCHANGED files
    BY <1>8, <2>1 DEF ReadKeyFile, TypeOK
  <2>3. new.user = worker[w].user /\ new.player = worker[w].player /\ new.pair = worker[w].pair
    BY <2>1 DEF Requests
  <2> HIDE DEF new
  <2>4. \A x \in Workers : Keeps(x)
    BY <1>7, <2>1, <2>2, <2>3
  <2> QED BY <1>3, <2>2, <2>4
<1>9. ASSUME NEW w \in Workers, NEW k \in Keys, DrawPlayer(w, k)
      PROVE  Draws(w)
  <2>1. worker[w] \in Requests /\ worker[w] # Idle
    BY <1>9, RequestFacts DEF DrawPlayer, At, Steps
  <2>2. /\ worker'[w].user = worker[w].user /\ worker'[w].player = k
        /\ worker'[w].pair = worker[w].pair /\ worker'[w].at = "drawMoon"
        /\ \A x \in Workers \ {w} : worker'[x] = worker[x]
        /\ UNCHANGED files
    BY <1>9, <2>1 DEF DrawPlayer, TypeOK, Requests
  <2>3. Takes(w, k)
    BY <1>9, DrawnFacts DEF DrawPlayer
  <2>4. HeldBy(worker'[w]) \subseteq Held(w) \cup {k} /\ worker'[w] # Idle
    BY <2>1, <2>2, HeldFacts DEF HeldBy, Idle
  <2> QED BY <2>1, <2>2, <2>3, <2>4 DEF Draws
<1>10. ASSUME NEW w \in Workers, NEW k \in Keys, DrawMoon(w, k)
       PROVE  Draws(w)
  <2>1. worker[w] \in Requests /\ worker[w] # Idle /\ worker[w].player \in Keys
    BY <1>10, RequestFacts DEF IInv, HandInv, DrawMoon, At, Steps
  <2>2. /\ worker'[w].user = worker[w].user /\ worker'[w].player = worker[w].player
        /\ worker'[w].pair = [moon |-> k, player |-> worker[w].player]
        /\ worker'[w].at = "open"
        /\ \A x \in Workers \ {w} : worker'[x] = worker[x]
        /\ UNCHANGED files
    BY <1>10, <2>1 DEF DrawMoon, TypeOK, Requests
  <2>3. Takes(w, k)
    BY <1>10, DrawnFacts DEF DrawMoon, AcceptableMoon
  <2>4. worker[w].player \in Held(w)
    BY <2>1, HeldFacts, NoKeyAssumption DEF HeldBy
  <2>5. HeldBy(worker'[w]) \subseteq Held(w) \cup {k} /\ worker'[w] # Idle
    BY <2>2, <2>4 DEF HeldBy, KeysOf, Idle
  <2> QED BY <2>1, <2>2, <2>3, <2>5 DEF Draws
<1>11. ASSUME NEW w \in Workers, Load(w)
       PROVE  Quiet \/ Loads(w)
  <2>1. worker[w] \in Requests /\ worker[w] # Idle /\ worker[w].user \in Users
    BY <1>11, RequestFacts DEF Load, At, Steps
  <2>2. UNCHANGED files
    BY <1>11 DEF Load
  <2>3. CASE Respond(w)
    <3> HIDE DEF Quiet
    <3> QED BY <1>4, <2>1, <2>2, <2>3 DEF Steps
  <2>4. CASE ~Respond(w)
    <3>1. files[worker[w].user] \in Pairs /\ worker[w].user \in Listed
      <4>1. Accepted(worker[w].op, worker[w].user) /\ worker[w].op # "get"
        BY <1>11, <2>4 DEF IInv, HandInv, Load
      <4> QED BY <1>11, <2>4, <4>1, ListedAssumption DEF Load, Accepted
    <3>2. /\ worker'[w].user = worker[w].user /\ worker'[w].player = worker[w].player
          /\ worker'[w].pair = files[worker[w].user] /\ worker'[w].at = "open"
          /\ \A x \in Workers \ {w} : worker'[x] = worker[x]
      BY <1>11, <2>1, <2>4 DEF Load, TypeOK, Requests
    <3>3. HeldBy(worker'[w]) \subseteq Held(w) \cup KeysOf({files[worker[w].user]})
      BY <2>1, <3>2, HeldFacts DEF HeldBy, KeysOf
    <3>4. worker'[w] # Idle
      BY <3>2 DEF Idle
    <3> QED BY <2>1, <2>2, <3>1, <3>2, <3>3, <3>4 DEF Loads
  <2> QED BY <2>3, <2>4
<1>12. ASSUME NEW w \in Workers, Open(w)
       PROVE  Quiet
  <2> DEFINE new == [worker[w] EXCEPT !.at = "write", !.linked = TRUE]
  <2>1. worker[w] \in Requests /\ worker[w] # Idle /\ worker[w].user \in Users
    BY <1>12, RequestFacts DEF Open, At, Steps
  <2>2. worker' = [worker EXCEPT ![w] = new]
    BY <1>12, <2>1 DEF Open, TypeOK
  <2>3. new.user = worker[w].user /\ new.player = worker[w].player /\ new.pair = worker[w].pair
    BY <2>1 DEF Requests
  <2> HIDE DEF new
  <2>4. \A x \in Workers : Keeps(x)
    BY <1>7, <2>1, <2>2, <2>3
  <2>5. \A u \in Listed : Stored(u)
    BY <1>12, <2>1, ContentsAssumption, ListedAssumption DEF Open, Stored, TypeOK
  <2> QED BY <2>4, <2>5
<1>13. ASSUME NEW w \in Workers, Write(w)
       PROVE  Quiet
  <2>1. /\ worker[w] \in Requests /\ worker[w] # Idle /\ worker[w].user \in Users
        /\ worker[w].pair \in Pairs
    BY <1>13, RequestFacts DEF IInv, HandInv, Write, At, Steps
  <2>2. \A x \in Workers : Keeps(x)
    <3> DEFINE new == Refreshing(worker[w])
    <3>1. new.user = worker[w].user /\ new.player = worker[w].player /\ new.pair = worker[w].pair
      BY <2>1 DEF Refreshing, Requests
    <3>2. Respond(w) \/ worker' = [worker EXCEPT ![w] = new]
      BY <1>13, <2>1 DEF Write, AfterWrite, TypeOK
    <3>3. CASE Respond(w)
      BY <1>2, <3>3 DEF Respond, Keeps, TypeOK
    <3> HIDE DEF new
    <3>4. CASE worker' = [worker EXCEPT ![w] = new]
      BY <1>7, <2>1, <3>1, <3>4
    <3> QED BY <3>2, <3>3, <3>4
  <2>3. KeysOf({worker[w].pair}) \subseteq Held(w)
    BY <2>1, HeldFacts, ContentsAssumption DEF HeldBy, KeysOf
  <2>4. \A u \in Listed :
          files'[u] = files[u] \/ (u = worker[w].user /\ files'[u] = worker[w].pair)
    BY <1>13, <2>1, ListedAssumption DEF Write, TypeOK
  <2>5. \A u \in Listed : Stored(u)
    BY <2>1, <2>3, <2>4 DEF Stored
  <2> QED BY <2>2, <2>5
<1>14. ASSUME NEW w \in Workers, Remove(w)
       PROVE  Quiet
  <2>1. worker[w].user \in Users
    BY <1>14, RequestFacts DEF Remove, At, Steps
  <2>2. \A u \in Listed : Stored(u)
    BY <1>14, <2>1, ContentsAssumption, ListedAssumption DEF Remove, Stored, TypeOK
  <2>3. ASSUME NEW x \in Workers
        PROVE  Keeps(x)
    <3>1. CASE x # w /\ At(x, "write")
      <4>1. worker[x] \in Requests /\ worker[x] # Idle
        BY <3>1, RequestFacts DEF At, Steps
      <4>2. /\ worker'[x].user = worker[x].user /\ worker'[x].player = worker[x].player
            /\ worker'[x].pair = worker[x].pair
        BY <1>14, <3>1, <4>1 DEF Remove, Requests
      <4>3. HeldBy(worker'[x]) = Held(x)
        BY <4>1, <4>2, HeldFacts DEF HeldBy
      <4> QED BY <4>1, <4>2, <4>3 DEF Keeps
    <3>2. CASE x # w /\ ~At(x, "write")
      BY <1>2, <1>14, <3>2 DEF Remove
    <3>3. CASE x = w
      BY <1>14, <3>3 DEF Remove, Keeps
    <3> QED BY <3>1, <3>2, <3>3
  <2> QED BY <2>2, <2>3
<1>15. ASSUME NEW w \in Workers, NEW u \in Listed, SkipKeyFile(w, u)
       PROVE  Quiet
  <2> DEFINE new == [worker[w] EXCEPT !.unread = Unread(w, u)]
  <2>1. worker[w] \in Requests /\ worker[w] # Idle
    BY <1>15, RequestFacts DEF SkipKeyFile, Fails, Steps
  <2>2. worker' = [worker EXCEPT ![w] = new] /\ UNCHANGED files
    BY <1>15, <2>1 DEF SkipKeyFile, TypeOK
  <2>3. new.user = worker[w].user /\ new.player = worker[w].player /\ new.pair = worker[w].pair
    BY <2>1 DEF Requests
  <2> HIDE DEF new
  <2>4. \A x \in Workers : Keeps(x)
    BY <1>7, <2>1, <2>2, <2>3
  <2> QED BY <1>3, <2>2, <2>4
<1>16. ASSUME NEW w \in Workers, Unwritten(w) \/ Abort(w)
       PROVE  Quiet
  <2> DEFINE new == Refreshing(worker[w])
  <2>1. worker[w] \in Requests /\ worker[w] # Idle
    BY <1>16, RequestFacts DEF Unwritten, Abort, Fails, Steps
  <2>2. new.user = worker[w].user /\ new.player = worker[w].player /\ new.pair = worker[w].pair
    BY <2>1 DEF Refreshing, Requests
  <2>3. (Respond(w) \/ worker' = [worker EXCEPT ![w] = new]) /\ UNCHANGED files
    BY <1>16, <2>1 DEF Unwritten, Abort, AfterWrite, TypeOK
  <2>4. ASSUME Respond(w)
        PROVE  \A x \in Workers : Keeps(x)
    BY <1>2, <2>4 DEF Respond, Keeps, TypeOK
  <2> HIDE DEF new
  <2>5. ASSUME worker' = [worker EXCEPT ![w] = new]
        PROVE  \A x \in Workers : Keeps(x)
    BY <1>7, <2>1, <2>2, <2>5
  <2> QED BY <1>3, <2>3, <2>4, <2>5
<1>17. CASE Restart
  BY <1>3, <1>17 DEF Restart, Keeps
<1>18. CASE UNCHANGED vars
  BY <1>2, <1>3, <1>18 DEF vars
<1> HIDE DEF Quiet
<1>19. ASSUME NEW w \in Workers, Worker(w)
       PROVE  Draws(w) \/ Loads(w) \/ Quiet
  BY <1>5, <1>6, <1>8, <1>9, <1>10, <1>11, <1>12, <1>13, <1>14, <1>15, <1>16, <1>19
  DEF Worker
<1>20. (\E w \in Workers : Draws(w) \/ Loads(w)) \/ Quiet
  BY <1>17, <1>18, <1>19 DEF Next, Quiet
<1> QED BY <1>1, <1>20 DEF Quiet

(* A key comes into a second hand only unseen, so that it comes to a second file
   only unseen.                                                            *)
LEMMA ApartStep ==
  ASSUME IInv, ApartInv, SharedKeysWereUnseen, [Next]_vars
  PROVE  ApartInv' /\ SharedKeysWereUnseen'
<1>1. unseen \subseteq unseen'
  BY HandSteps
<1>2. \A w \in Workers : worker[w] # Idle =>
        \A u \in Listed \ {worker[w].user} :
          files[u] \in Pairs => Held(w) \cap KeysOf({files[u]}) \subseteq unseen'
  BY <1>1 DEF ApartInv
<1>3. \A w, x \in Workers :
        worker[w] # Idle /\ worker[x] # Idle /\ worker[w].user # worker[x].user =>
          Held(w) \cap Held(x) \subseteq unseen'
  BY <1>1 DEF ApartInv
<1>4. \A u, v \in Listed :
        u # v /\ files[u] \in Pairs /\ files[v] \in Pairs =>
          KeysOf({files[u]}) \cap KeysOf({files[v]}) \subseteq unseen'
  BY <1>1 DEF SharedKeysWereUnseen
<1> SUFFICES
      /\ \A w \in Workers : worker'[w] # Idle =>
           \A u \in Listed \ {worker'[w].user} :
             files'[u] \in Pairs => HeldBy(worker'[w]) \cap KeysOf({files'[u]}) \subseteq unseen'
      /\ \A w, x \in Workers :
           worker'[w] # Idle /\ worker'[x] # Idle /\ worker'[w].user # worker'[x].user =>
             HeldBy(worker'[w]) \cap HeldBy(worker'[x]) \subseteq unseen'
      /\ \A u, v \in Listed :
           u # v /\ files'[u] \in Pairs /\ files'[v] \in Pairs =>
             KeysOf({files'[u]}) \cap KeysOf({files'[v]}) \subseteq unseen'
  BY DEF ApartInv, SharedKeysWereUnseen, Held, HeldBy, KeysOf
<1>5. CASE (\A x \in Workers : Keeps(x)) /\ (\A u \in Listed : Stored(u))
  <2>1. ASSUME NEW w \in Workers, worker'[w] # Idle, NEW u \in Listed, worker'[w].user # u,
               files'[u] \in Pairs
        PROVE  HeldBy(worker'[w]) \cap KeysOf({files'[u]}) \subseteq unseen'
    BY <1>2, <1>3, <1>5, <2>1 DEF Keeps, Stored
  <2>2. ASSUME NEW w \in Workers, NEW x \in Workers, worker'[w] # Idle, worker'[x] # Idle,
               worker'[w].user # worker'[x].user
        PROVE  HeldBy(worker'[w]) \cap HeldBy(worker'[x]) \subseteq unseen'
    BY <1>3, <1>5, <2>2 DEF Keeps
  <2>3. ASSUME NEW u \in Listed, NEW v \in Listed, u # v, files'[u] \in Pairs, files'[v] \in Pairs
        PROVE  KeysOf({files'[u]}) \cap KeysOf({files'[v]}) \subseteq unseen'
    BY <1>2, <1>3, <1>4, <1>5, <2>3 DEF Stored
  <2> QED BY <2>1, <2>2, <2>3
<1>6. ASSUME NEW y \in Workers, Draws(y) \/ Loads(y)
      PROVE  /\ \A w \in Workers : worker'[w] # Idle =>
                  \A u \in Listed \ {worker'[w].user} :
                    files[u] \in Pairs =>
                      HeldBy(worker'[w]) \cap KeysOf({files[u]}) \subseteq unseen'
             /\ \A w, x \in Workers :
                  worker'[w] # Idle /\ worker'[x] # Idle /\ worker'[w].user # worker'[x].user =>
                    HeldBy(worker'[w]) \cap HeldBy(worker'[x]) \subseteq unseen'
  <2> DEFINE Mine == HeldBy(worker'[y])
  <2>1. \A x \in Workers \ {y} : worker'[x] = worker[x]
    BY <1>6 DEF Draws, Loads
  <2>2. worker[y] # Idle /\ worker'[y].user = worker[y].user
    BY <1>6 DEF Draws, Loads
  <2>3. ASSUME NEW u \in Listed, u # worker[y].user, files[u] \in Pairs
        PROVE  Mine \cap KeysOf({files[u]}) \subseteq unseen'
    <3>1. CASE Draws(y)
      BY <1>2, <2>2, <2>3, <3>1 DEF Draws, Takes
    <3>2. CASE Loads(y)
      BY <1>2, <1>4, <2>2, <2>3, <3>2 DEF Loads
    <3> QED BY <1>6, <3>1, <3>2
  <2>4. ASSUME NEW x \in Workers \ {y}, worker[x] # Idle, worker[x].user # worker[y].user
        PROVE  Mine \cap Held(x) \subseteq unseen'
    <3>1. CASE Draws(y)
      BY <1>3, <2>2, <2>4, <3>1 DEF Draws, Takes
    <3>2. CASE Loads(y)
      BY <1>2, <1>3, <2>2, <2>4, <3>2 DEF Loads
    <3> QED BY <1>6, <3>1, <3>2
  <2>5. \A x \in Workers \ {y} : worker'[x] # Idle => HeldBy(worker'[x]) = Held(x)
    BY <2>1, HeldFacts
  <2> HIDE DEF Mine
  <2>6. ASSUME NEW w \in Workers, worker'[w] # Idle, NEW u \in Listed, worker'[w].user # u,
               files[u] \in Pairs
        PROVE  HeldBy(worker'[w]) \cap KeysOf({files[u]}) \subseteq unseen'
    <3>1. CASE w = y
      BY <2>2, <2>3, <2>6, <3>1 DEF Mine
    <3>2. CASE w # y
      BY <1>2, <2>1, <2>5, <2>6, <3>2
    <3> QED BY <3>1, <3>2
  <2>7. ASSUME NEW w \in Workers, NEW x \in Workers, worker'[w] # Idle, worker'[x] # Idle,
               worker'[w].user # worker'[x].user
        PROVE  HeldBy(worker'[w]) \cap HeldBy(worker'[x]) \subseteq unseen'
    <3>1. CASE w = y
      <4>1. x # y /\ worker[x] # Idle /\ worker[x].user # worker[y].user
        BY <2>1, <2>2, <2>7, <3>1
      <4> QED BY <2>4, <2>5, <2>7, <3>1, <4>1 DEF Mine
    <3>2. CASE x = y
      <4>1. w # y /\ worker[w] # Idle /\ worker[w].user # worker[y].user
        BY <2>1, <2>2, <2>7, <3>2
      <4> QED BY <2>4, <2>5, <2>7, <3>2, <4>1 DEF Mine
    <3>3. CASE w # y /\ x # y
      BY <1>3, <2>1, <2>5, <2>7, <3>3
    <3> QED BY <3>1, <3>2, <3>3
  <2> QED BY <2>6, <2>7
<1>7. ASSUME NEW y \in Workers, Draws(y) \/ Loads(y)
      PROVE  UNCHANGED files
  BY <1>7 DEF Draws, Loads
<1> QED BY <1>4, <1>5, <1>6, <1>7, HandSteps

(* Two files have a key in common only if it was drawn while another request
   had it in hand, or while it was on disk and not in the table: hasKey and
   the order of the handlers' steps rule out every other way.              *)
THEOREM KeysSharedOnlyUnseen == Spec => []SharedKeysWereUnseen
<1>1. Init => ApartInv /\ SharedKeysWereUnseen
  BY ContentsAssumption, ListedAssumption DEF Init, ApartInv, SharedKeysWereUnseen
<1>2. IInv /\ ApartInv /\ SharedKeysWereUnseen /\ [Next]_vars
        => ApartInv' /\ SharedKeysWereUnseen'
  BY ApartStep
<1> QED BY <1>1, <1>2, Invariance, PTL DEF Spec

=============================================================================
