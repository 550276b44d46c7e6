------------------------------ MODULE KeyStore ------------------------------
(***************************************************************************)
(* The key files and the table that is read from them: KeyManager and the  *)
(* handlers of APIServer.                                                  *)
(*                                                                         *)
(*  - cpp-httplib runs handlers on a pool of threads, so requests overlap. *)
(*    A step is one access to a file or one section of m_keyMutex.         *)
(*  - Refreshing reads the directory without the mutex, each file at its   *)
(*    own moment, and swaps the result in under the mutex.                 *)
(*  - Writing a file is two steps: ofstream truncates it when it opens it, *)
(*    and its buffer reaches the file, in one piece, when it closes it.    *)
(*  - A file's limit is left out: Relay lets the limits be anything.       *)
(*  - Any access to a file may fail.  std::filesystem throws, which ends   *)
(*    the request; a stream that fails is not looked at again.             *)
(*                                                                         *)
(* Requests without secret or id change nothing and are left out.  The     *)
(* process may be killed and started again between any steps.              *)
(***************************************************************************)
EXTENDS Naturals, FiniteSets

CONSTANTS
  Workers,      \* the threads of cpp-httplib
  Users,        \* the files that ids name
  Listed,       \* those in ../keys itself; an id with a directory in it
                \* names a file elsewhere, or none that can be opened
  Valid,        \* those with an id of letters and digits
  Faults,       \* the steps whose access to a file may fail
  Keys,         \* the strings randomString may return
  NoKey,        \* playerHash before it is drawn
  NoFile,       \* there is no file of that name
  Empty,        \* the contents of a file that was just truncated
  NoPair,       \* a request has no key pair yet
  MaxRequests,  \* bounds of the model: requests in a behaviour,
  MaxFaults     \* and accesses that fail

ASSUME ListedAssumption == Listed \subseteq Users /\ Valid \subseteq Listed
ASSUME NoKeyAssumption == NoKey \notin Keys
ASSUME MaxRequestsAssumption == MaxRequests \in Nat
ASSUME MaxFaultsAssumption == MaxFaults \in Nat

Pairs == [moon : Keys, player : Keys]

ASSUME ContentsAssumption ==
  /\ NoFile \notin Pairs /\ Empty \notin Pairs /\ NoPair \notin Pairs
  /\ NoFile # Empty

VARIABLES
  files,      \* the key files
  table,      \* KeyManager::m_keys
  worker,     \* the request each thread is handling, and how far it is
  requests,   \* how many requests have been made
  faults,     \* how many accesses have failed
  missed,     \* history: on disk but not found by the thread's refresh, as it
              \* was written after the refresh read its file, or not readable
  fresh,      \* history: what was written since the table was swapped
  lacking,    \* history: "missed" of the refresh the table comes from
  dropped,    \* history: what left the disk after the refresh read it
  gone,       \* history: "dropped" of the table's refresh, and what left since
  promised,   \* history: the pair /create hands out, until the file is touched
  unseen      \* history: keys drawn while hasKey could not know them

histVars == <<missed, fresh, lacking, dropped, gone, promised, unseen>>
counters == <<requests, faults>>
vars == <<files, table, worker, counters, histVars>>

Idle == [op |-> "none", at |-> "idle"]

Operations == {"create", "get", "delete", "limit"}
Steps == {"read", "drawPlayer", "drawMoon", "exists", "load", "open", "write", "remove"}

Requests ==
  [op : Operations, at : Steps, user : Users,
   unread : SUBSET Listed,          \* refreshKeys: files still to read
   found : SUBSET Pairs,            \* refreshKeys: the local vector "keys"
   player : Keys \cup {NoKey},      \* playerHash
   pair : Pairs \cup {NoPair},      \* moonHash and playerHash
   linked : BOOLEAN]                \* the open file still has its name

TypeOK ==
  /\ files \in [Users -> Pairs \cup {NoFile, Empty}]
  /\ table \subseteq Pairs
  /\ worker \in [Workers -> Requests \cup {Idle}]
  /\ requests \in 0..MaxRequests
  /\ faults \in 0..MaxFaults
  /\ missed \in [Workers -> SUBSET Pairs]
  /\ fresh \subseteq Pairs
  /\ lacking \subseteq Pairs
  /\ dropped \in [Workers -> SUBSET Pairs]
  /\ gone \subseteq Pairs
  /\ promised \in [Users -> Pairs \cup {NoPair}]
  /\ unseen \subseteq Keys

(* main constructs the KeyManager, with a refresh, before any thread. *)
Init ==
  /\ files = [u \in Users |-> NoFile]
  /\ table = {}
  /\ worker = [w \in Workers |-> Idle]
  /\ requests = 0
  /\ faults = 0
  /\ missed = [w \in Workers |-> {}]
  /\ fresh = {}
  /\ lacking = {}
  /\ dropped = [w \in Workers |-> {}]
  /\ gone = {}
  /\ promised = [u \in Users |-> NoPair]
  /\ unseen = {}

-----------------------------------------------------------------------------
(* Bookkeeping of a request.                                               *)

At(w, step) == worker[w].at = step
Goto(w, step) == worker' = [worker EXCEPT ![w].at = step]
Respond(w) == worker' = [worker EXCEPT ![w] = Idle]

KeysOf(pairs) == {p.moon : p \in pairs} \cup {p.player : p \in pairs}

(* The keys that requests have drawn or read and may still write. *)
Held(w) ==
  IF worker[w] = Idle THEN {}
  ELSE ({worker[w].player} \ {NoKey}) \cup KeysOf({worker[w].pair} \ {NoPair})

RefreshingOnto(request) ==   \* mutant: the vector is not a new one
  [request EXCEPT !.at = "read", !.unread = Listed]
Refreshing(request) ==
  [request EXCEPT !.at = "read", !.unread = Listed, !.found = {}]

Request(op, u) ==
  [op |-> op, at |-> "exists", user |-> u, unread |-> {}, found |-> {},
   player |-> NoKey, pair |-> NoPair, linked |-> FALSE]

(* /create and /get begin with a refresh, /delete and /limit with a look. *)
Begin(w, op, u) ==
  /\ worker[w] = Idle
  /\ requests < MaxRequests
  /\ requests' = requests + 1
  /\ worker' = [worker EXCEPT ![w] =
                  IF op \in {"create", "get"} THEN Refreshing(Request(op, u))
                                              ELSE Request(op, u)]
  /\ UNCHANGED <<files, table, faults, histVars>>

-----------------------------------------------------------------------------
(* KeyManager::refreshKeys.                                                *)

(* A file shorter than two keys is skipped. *)
ParsedUnchecked(contents) == {contents} \ {NoFile}   \* mutant: no length check
Parsed(contents) == {contents} \cap Pairs

UnreadStops(w, u) ==   \* mutant: break instead of continue
  IF Parsed(files[u]) = {} THEN {} ELSE worker[w].unread \ {u}
Unread(w, u) == worker[w].unread \ {u}

ReadKeyFile(w, u) ==
  /\ At(w, "read")
  /\ u \in worker[w].unread
  /\ worker' = [worker EXCEPT ![w].unread = Unread(w, u),
                              ![w].found = @ \cup Parsed(files[u])]
  /\ UNCHANGED <<files, table, counters, histVars>>

(* The file access of the thread's step fails. *)
Fails(w, steps) ==
  /\ worker[w].at \in Faults \cap steps
  /\ faults < MaxFaults
  /\ faults' = faults + 1

(* A file that cannot be read has no contents. *)
SkipKeyFile(w, u) ==
  /\ Fails(w, {"read"})
  /\ u \in worker[w].unread
  /\ worker' = [worker EXCEPT ![w].unread = Unread(w, u)]
  /\ missed' = [missed EXCEPT ![w] = @ \cup Parsed(files[u])]
  /\ UNCHANGED <<files, table, requests, fresh, lacking, dropped, gone, promised, unseen>>

(* What the handler does after its refresh: /create draws keys after the
   first and answers after the second, /get looks for the file.            *)
AfterRefresh(w) ==
  IF worker[w].op = "get" THEN Goto(w, "exists")
  ELSE IF worker[w].pair = NoPair THEN Goto(w, "drawPlayer")
  ELSE Respond(w)

SwapKeys(w) ==
  /\ At(w, "read")
  /\ worker[w].unread = {}
  /\ table' = worker[w].found
  /\ AfterRefresh(w)
  /\ lacking' = missed[w]
  /\ missed' = [missed EXCEPT ![w] = {}]
  /\ fresh' = {}
  /\ gone' = dropped[w]
  /\ dropped' = [dropped EXCEPT ![w] = {}]
  /\ UNCHANGED <<files, counters, promised, unseen>>

-----------------------------------------------------------------------------
(* /create draws until hasKey answers no, in a section of its own for each *)
(* key, and gives up when it does not find one (1024 attempts).            *)

HasKey(k) == k \in KeysOf(table)

NoteDrawn(w, k) ==
  unseen' = IF \/ k \in KeysOf(fresh \cup lacking)
               \/ \E x \in Workers \ {w} : k \in Held(x)
            THEN unseen \cup {k} ELSE unseen

DrawPlayer(w, k) ==
  /\ At(w, "drawPlayer")
  /\ ~HasKey(k)
  /\ worker' = [worker EXCEPT ![w].player = k, ![w].at = "drawMoon"]
  /\ NoteDrawn(w, k)
  /\ UNCHANGED <<files, table, counters, missed, fresh, lacking, dropped, gone, promised>>

AcceptableMoonUnchecked(w, k) == k # worker[w].player   \* mutant: no hasKey
AcceptableMoon(w, k) == ~HasKey(k) /\ k # worker[w].player

DrawMoon(w, k) ==
  /\ At(w, "drawMoon")
  /\ AcceptableMoon(w, k)
  /\ worker' = [worker EXCEPT ![w].pair = [moon |-> k, player |-> worker[w].player],
                              ![w].at = "open"]
  /\ NoteDrawn(w, k)
  /\ UNCHANGED <<files, table, counters, missed, fresh, lacking, dropped, gone, promised>>

GiveUp(w) ==
  /\ \/ At(w, "drawPlayer") /\ \A k \in Keys : HasKey(k)
     \/ At(w, "drawMoon") /\ \A k \in Keys : ~AcceptableMoon(w, k)
  /\ Respond(w)
  /\ UNCHANGED <<files, table, counters, histVars>>

-----------------------------------------------------------------------------
(* Access to the file of the request's user.                               *)

(* fileExists: /get answers {}, /delete and /limit fail without the file, and
   these two refuse an id that is not made of letters and digits.          *)
Accepted(op, u) == op = "get" \/ u \in Valid

FileExists(w) ==
  LET r == worker[w] IN
  /\ At(w, "exists")
  /\ IF files[r.user] # NoFile /\ Accepted(r.op, r.user)
     THEN Goto(w, IF r.op = "delete" THEN "remove" ELSE "load")
     ELSE Respond(w)
  /\ UNCHANGED <<files, table, counters, histVars>>

(* readFile; substr throws on a file without keys, which ends the request.
   /get answers with what it read, /limit writes it again.                 *)
Load(w) ==
  LET r == worker[w] IN
  /\ At(w, "load")
  /\ IF files[r.user] \in Pairs /\ r.op = "limit"
     THEN worker' = [worker EXCEPT ![w].pair = files[r.user], ![w].at = "open"]
     ELSE Respond(w)
  /\ UNCHANGED <<files, table, counters, histVars>>

AlreadyRead(x, u) == At(x, "read") /\ u \in Listed \ worker[x].unread

(* The file of u is about to lose the pair it holds. *)
NoteDropped(u) ==
  LET pair == IF u \in Listed THEN {files[u]} \cap Pairs ELSE {} IN
  /\ gone' = gone \cup pair
  /\ dropped' = [x \in Workers |->
                   IF AlreadyRead(x, u) THEN dropped[x] \cup pair ELSE dropped[x]]

(* The file of u is about to get the pair p. *)
NoteWritten(u, p) ==
  /\ fresh' = IF u \in Listed THEN fresh \cup {p} ELSE fresh
  /\ missed' = [x \in Workers |->
                  IF AlreadyRead(x, u) THEN missed[x] \cup {p} ELSE missed[x]]

(* writeFile opens the file, which creates or truncates it ... *)
Open(w) ==
  LET u == worker[w].user IN
  /\ At(w, "open")
  /\ files' = [files EXCEPT ![u] = Empty]
  /\ worker' = [worker EXCEPT ![w].at = "write", ![w].linked = TRUE]
  /\ promised' = [promised EXCEPT ![u] = NoPair]
  /\ NoteDropped(u)
  /\ UNCHANGED <<table, counters, missed, fresh, lacking, unseen>>

(* /create refreshes once more after writeFile, /limit does not. *)
AfterWriteNoRefresh(w) == Respond(w)   \* mutant: the second one is omitted
AfterWrite(w) ==
  IF worker[w].op = "create" THEN worker' = [worker EXCEPT ![w] = Refreshing(@)]
  ELSE Respond(w)

(* ... and closes it; a file deleted meanwhile takes the data with it. *)
Write(w) ==
  LET u == worker[w].user
      p == worker[w].pair
  IN
  /\ At(w, "write")
  /\ AfterWrite(w)
  /\ IF worker[w].linked
     THEN /\ files' = [files EXCEPT ![u] = p]
          /\ NoteDropped(u)
          /\ NoteWritten(u, p)
          /\ promised' = [promised EXCEPT ![u] =
                            IF worker[w].op = "create" THEN p ELSE NoPair]
     ELSE UNCHANGED <<files, missed, fresh, dropped, gone, promised>>
  /\ UNCHANGED <<table, counters, lacking, unseen>>

(* The file cannot be opened, or the data does not get into it: writeFile
   returns all the same, and /create goes on to hand the pair out.         *)
Unwritten(w) ==
  /\ Fails(w, {"open", "write"})
  /\ At(w, "write") => worker[w].linked
  /\ AfterWrite(w)
  /\ promised' = IF worker[w].op = "create"
                 THEN [promised EXCEPT ![worker[w].user] = worker[w].pair]
                 ELSE promised
  /\ UNCHANGED <<files, table, requests, missed, fresh, lacking, dropped, gone, unseen>>

(* deleteFile; a request that has the file open keeps a nameless one. *)
Remove(w) ==
  LET u == worker[w].user IN
  /\ At(w, "remove")
  /\ files' = [files EXCEPT ![u] = NoFile]
  /\ worker' = [x \in Workers |->
                  IF x = w THEN Idle
                  ELSE IF At(x, "write") /\ worker[x].user = u
                       THEN [worker[x] EXCEPT !.linked = FALSE]
                       ELSE worker[x]]
  /\ promised' = [promised EXCEPT ![u] = NoPair]
  /\ NoteDropped(u)
  /\ UNCHANGED <<table, counters, missed, fresh, lacking, unseen>>

(* What /create is about to hand out for u is in the hands of a request that
   runs its second refresh.                                                *)
Publishing(u) ==
  \E w \in Workers :
    At(w, "read") /\ worker[w].user = u /\ worker[w].pair = promised[u]

(* std::filesystem throws, or /get and /limit find no key in what they could
   not read: the request ends, and /create has handed nothing out.         *)
Abort(w) ==
  LET r == worker[w] IN
  /\ Fails(w, {"read", "exists", "load", "remove"})
  /\ Respond(w)
  /\ missed' = [missed EXCEPT ![w] = {}]
  /\ dropped' = [dropped EXCEPT ![w] = {}]
  /\ promised' = IF r.at = "read" /\ promised[r.user] = r.pair
                 THEN [promised EXCEPT ![r.user] = NoPair] ELSE promised
  /\ UNCHANGED <<files, table, requests, fresh, lacking, gone, unseen>>

(* The process is killed and started again; its first refresh may fail to read
   some files.                                                             *)
Unreadable ==
  IF "read" \in Faults /\ faults < MaxFaults THEN {u \in Listed : files[u] \in Pairs}
  ELSE {}

Restart ==
  /\ worker' = [w \in Workers |-> Idle]
  /\ \E skipped \in SUBSET Unreadable :
       /\ faults' = IF skipped = {} THEN faults ELSE faults + 1
       /\ table' = UNION {Parsed(files[u]) : u \in Listed \ skipped}
       /\ lacking' = UNION {Parsed(files[u]) : u \in skipped}
  /\ missed' = [w \in Workers |-> {}]
  /\ fresh' = {}
  /\ dropped' = [w \in Workers |-> {}]
  /\ gone' = {}
  /\ promised' = [u \in Users |-> IF Publishing(u) THEN NoPair ELSE promised[u]]
  /\ UNCHANGED <<files, requests, unseen>>

Worker(w) ==
  \/ \E op \in Operations, u \in Users : Begin(w, op, u)
  \/ \E u \in Listed : ReadKeyFile(w, u) \/ SkipKeyFile(w, u)
  \/ SwapKeys(w)
  \/ \E k \in Keys : DrawPlayer(w, k) \/ DrawMoon(w, k)
  \/ GiveUp(w)
  \/ FileExists(w) \/ Load(w) \/ Open(w) \/ Write(w) \/ Unwritten(w)
  \/ Remove(w) \/ Abort(w)

Next == Restart \/ \E w \in Workers : Worker(w)

Spec == Init /\ [][Next]_vars

-----------------------------------------------------------------------------
(* Properties.                                                             *)

(* Every pair in the directory is in the table, unless the refresh that
   filled the table could not read its file or had read it before the pair
   was written, or the pair is newer than the table: no refresh forgets a
   file, whatever the others, nor does a restart (refreshKeys).            *)
FilesKnown ==
  \A u \in Listed : files[u] \in Pairs => files[u] \in table \cup lacking \cup fresh

(* /delete leaves the table alone.  A pair that is not on disk any more works
   only until a refresh that reads the directory after the pair has left it. *)
DeletedForgotten == table \subseteq {files[u] : u \in Listed} \cup gone

(* The pair that /create has answered with works as long as it is in its file
   in the directory, unless the refresh that filled the table had read the
   file before, or could not read it; /create's own refresh sees to that.  *)
WrittenPromiseKept ==
  \A u \in Listed :
    promised[u] # NoPair /\ files[u] = promised[u] =>
      promised[u] \in table \cup lacking \/ Publishing(u)

(* APIServer.cpp:72: "refresh keys after the files are written to get them". *)
PromiseKept ==
  \A u \in Users : promised[u] # NoPair => promised[u] \in table \/ Publishing(u)

(* Two files share a key only if it was drawn while a request had it in
   hand, or it was on disk but not in the table yet (/create and hasKey).  *)
SharedKeysWereUnseen ==
  \A u, v \in Listed :
    u # v /\ files[u] \in Pairs /\ files[v] \in Pairs =>
      KeysOf({files[u]}) \cap KeysOf({files[v]}) \subseteq unseen

(* APIServer.cpp:39: "refresh keys before it all starts to avoid duplicates". *)
NoDuplicates ==
  \A u, v \in Listed :
    u # v /\ files[u] \in Pairs /\ files[v] \in Pairs =>
      KeysOf({files[u]}) \cap KeysOf({files[v]}) = {}

=============================================================================
