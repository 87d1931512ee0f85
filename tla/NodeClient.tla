----------------------------- MODULE NodeClient -----------------------------
(* The Node binding: calls from JavaScript that overlap, one client behind   *)
(* an async mutex, one session that a timeout loses for every later call.    *)
(* What a walk does to the client's root of trust is Anchor, which Sync      *)
(* implements; whether a read verifies is AccountProof.                      *)
EXTENDS Anchor, Sequences

CONSTANTS Callers,   \* promises that may be pending at once
          Nobody,
          Args       \* blocks JavaScript names in a call

ASSUME NodeAssumption == Nobody \notin Callers

Ops == {"anchor", "sync", "masterchain_info", "account", "account_reported",
        "account_at", "account_state"}

VARIABLES session,   \* "none", "boot" (the first sync of connect_from), "open" or "lost"
          queue,     \* calls waiting for the mutex, first come first
          owner,     \* the call that holds it
          pc,        \* "idle", "waiting", "holding", "walk", "info" or "read"
          op,
          block,     \* the block the call reads at
          shown,     \* the anchor JavaScript was shown last
          floor,     \* its sequence number when the call was made
          returned   \* the value the last step returned, if it did: [op, block, floor]

calls == <<pc, op, block, floor>>
nodeVars == <<vars, session, queue, owner, calls, shown, returned>>

NoValue == [op |-> "none", block |-> NoBlock, floor |-> 0]

NodeInit == /\ Init /\ session = "none"
            /\ pc = [c \in Callers |-> "idle"] /\ op = [c \in Callers |-> "none"]
            /\ block = [c \in Callers |-> NoBlock] /\ floor = [c \in Callers |-> 0]
            /\ queue = <<>> /\ owner = Nobody /\ shown = NoBlock /\ returned = NoValue

SeqnoOf(b) == IF b = NoBlock THEN 0 ELSE b.seqno

----------------------------------------------------------------------------
(* connect and connectFrom hand out a client; the latter walks first. *)
Connect == /\ Open /\ anchor' = NoBlock /\ session' = "open" /\ returned' = NoValue
           /\ UNCHANGED <<queue, owner, calls, shown>>

ConnectFrom == /\ saved # NoBlock /\ Open /\ anchor' = saved /\ session' = "boot"
               /\ returned' = NoValue
               /\ UNCHANGED <<queue, owner, calls, shown>>

BootEnds == /\ session = "boot"
            /\ \/ session' = "open" /\ \E k, h \in Ids : Learn(k, h)
               \/ session' = "none" /\ Close
            /\ returned' = NoValue
            /\ UNCHANGED <<queue, owner, calls, shown>>

(* A method is called and waits for the mutex. An address or a block that    *)
(* does not parse is refused before that and changes nothing.                *)
Invoke(c, o, b) ==
  /\ session \in {"open", "lost"} /\ pc[c] = "idle"
  /\ pc' = [pc EXCEPT ![c] = "waiting"] /\ queue' = Append(queue, c)
  /\ op' = [op EXCEPT ![c] = o]
  /\ block' = [block EXCEPT ![c] = IF o \in {"account_at", "account_state"} THEN b ELSE NoBlock]
  /\ floor' = [floor EXCEPT ![c] = IF o = "anchor" THEN SeqnoOf(shown) ELSE 0]
  /\ returned' = NoValue
  /\ UNCHANGED <<vars, session, owner, shown>>

(* The mutex goes to the call that has waited longest. *)
Acquire == /\ owner = Nobody /\ queue # <<>>
           /\ owner' = Head(queue) /\ queue' = Tail(queue)
           /\ pc' = [pc EXCEPT ![Head(queue)] = "holding"]
           /\ returned' = NoValue
           /\ UNCHANGED <<vars, session, op, block, floor, shown>>

(* A call ends and its guard is dropped. *)
End(c) == /\ pc' = [pc EXCEPT ![c] = "idle"] /\ op' = [op EXCEPT ![c] = "none"]
          /\ block' = [block EXCEPT ![c] = NoBlock] /\ floor' = [floor EXCEPT ![c] = 0]
          /\ owner' = Nobody /\ UNCHANGED queue

Return(c, b) == /\ End(c)
                /\ returned' = [op |-> op[c], block |-> b, floor |-> floor[c]]

Throw(c) == End(c) /\ returned' = NoValue /\ UNCHANGED shown

(* The call goes on to its next await, still holding the lock. *)
Await(c, what, b) == /\ pc' = [pc EXCEPT ![c] = what] /\ block' = [block EXCEPT ![c] = b]
                     /\ returned' = NoValue
                     /\ UNCHANGED <<queue, owner, op, floor, shown>>

(* Mutant: a query is written to a session that was lost. *)
Query_Anyway(c, what) == Await(c, what, block[c])

(* A query on a lost session is refused before anything is written. *)
Query(c, what) == \/ session = "lost" /\ Throw(c)
                  \/ session = "open" /\ Await(c, what, block[c])

----------------------------------------------------------------------------
(* anchor: no query, the client's own state under the lock. *)
ShowAnchor(c) == /\ owner = c /\ pc[c] = "holding" /\ op[c] = "anchor"
                 /\ Return(c, anchor) /\ shown' = anchor
                 /\ UNCHANGED <<vars, session>>

(* sync, and account, which begins with one. *)
BeginWalk(c) == /\ owner = c /\ pc[c] = "holding" /\ op[c] \in {"sync", "account"}
                /\ \/ Floor = NoBlock /\ Throw(c)
                   \/ Floor # NoBlock /\ Query(c, "walk")
                /\ UNCHANGED <<vars, session>>

(* The walk arrives: sync reports the head, account reads at it. *)
WalkEnds(c, k, h) ==
  /\ pc[c] = "walk" /\ Learn(k, h)
  /\ \/ op[c] = "sync" /\ Return(c, h) /\ UNCHANGED shown
     \/ op[c] = "account" /\ Await(c, "read", h)
  /\ UNCHANGED session

(* The reads that begin with a query of their own; account_at first refuses  *)
(* a block that is not the masterchain's.                                    *)
BeginRead(c) ==
  /\ owner = c /\ pc[c] = "holding"
  /\ \/ op[c] \in {"masterchain_info", "account_reported"} /\ Query(c, "info")
     \/ op[c] = "account_state" /\ Query(c, "read")
     \/ op[c] = "account_at" /\ block[c].mc /\ Query(c, "read")
     \/ op[c] = "account_at" /\ ~block[c].mc /\ Throw(c)
  /\ UNCHANGED <<vars, session>>

(* The server names its head: the answer itself, or where to read. *)
InfoAnswered(c, b) ==
  /\ pc[c] = "info"
  /\ \/ op[c] = "masterchain_info" /\ Return(c, b) /\ UNCHANGED shown
     \/ op[c] = "account_reported" /\ Await(c, "read", b)
  /\ UNCHANGED <<vars, session>>

(* The account's bytes arrive and are proved by account and account_at,      *)
(* decoded by account_reported, handed on by account_state.                  *)
ReadAnswered(c) == /\ pc[c] = "read" /\ Return(c, block[c])
                   /\ UNCHANGED <<vars, session, shown>>

(* A walk, a query or a proof ends in an error that leaves the session in    *)
(* step.                                                                     *)
Refused(c) == /\ pc[c] \in {"walk", "info", "read"} /\ Throw(c)
              /\ UNCHANGED <<vars, session>>

(* Mutant: only the walk has deadlines. *)
TimesOut_WalkOnly(c) == /\ pc[c] = "walk" /\ session' = "lost" /\ Throw(c) /\ UNCHANGED vars

(* A deadline passes, or the socket fails, with a query in flight. *)
TimesOut(c) == /\ pc[c] \in {"walk", "info", "read"} /\ session' = "lost" /\ Throw(c)
               /\ UNCHANGED vars

----------------------------------------------------------------------------
(* JavaScript stores the anchor it was shown, which may be behind by then. *)
Store == /\ live /\ shown # NoBlock /\ saved' = shown /\ returned' = NoValue
         /\ UNCHANGED <<live, anchor, session, queue, owner, calls, shown>>

(* The process ends with whatever calls are pending. *)
Exit == /\ Close /\ session' = "none"
        /\ pc' = [c \in Callers |-> "idle"] /\ op' = [c \in Callers |-> "none"]
        /\ block' = [c \in Callers |-> NoBlock] /\ floor' = [c \in Callers |-> 0]
        /\ queue' = <<>> /\ owner' = Nobody /\ shown' = NoBlock /\ returned' = NoValue

(* What the runtime does by itself: poll the holder of the lock up to its    *)
(* next await, and fire its timer.                                           *)
Runtime(c) == ShowAnchor(c) \/ BeginWalk(c) \/ BeginRead(c) \/ TimesOut(c)

NodeNext == \/ Connect \/ ConnectFrom \/ BootEnds \/ Acquire \/ Store \/ Exit
            \/ \E c \in Callers :
                 \/ Runtime(c) \/ Refused(c) \/ ReadAnswered(c)
                 \/ \E o \in Ops, b \in Args : Invoke(c, o, b)
                 \/ \E k, h \in Ids : WalkEnds(c, k, h)
                 \/ \E b \in Ids : InfoAnswered(c, b)

NodeSpec == NodeInit /\ [][NodeNext]_nodeVars

(* The executor is fair to a ready task and its timers fire; no server is    *)
(* assumed to answer.                                                        *)
NodeFairness == WF_nodeVars(Acquire) /\ \A c \in Callers : WF_nodeVars(Runtime(c))

----------------------------------------------------------------------------
(* account returns a value only at a head its own walk proved, and at that   *)
(* moment the client's anchor still vouches for that head: no other call's   *)
(* walk came between.                                                        *)
AccountRestsOnAnchor ==
  returned.op = "account" => <<anchor, returned.block>> \in Vouches

(* Whoever asks for the anchor is shown one no older than the one JavaScript *)
(* had been shown when it asked, whatever walks, failures and refusals of    *)
(* other calls came between; and what it stores is always a committed key    *)
(* block.                                                                    *)
AnchorsNeverGoBack ==
  /\ returned.op = "anchor" => SeqnoOf(returned.block) >= returned.floor
  /\ {shown, saved} \subseteq CommittedKeys \cup {NoBlock}

(* A session that was lost answers nobody: no call that ends after that,     *)
(* anchor excepted, ends with a value, until the client is replaced.         *)
LostStep == session = "lost" => /\ session' \in {"lost", "none"}
                                /\ returned'.op \in {"none", "anchor"}

LostAnswersNobody == [][LostStep]_nodeVars

(* Every call returns, however many are pending and whatever the server      *)
(* leaves unanswered.                                                        *)
EveryCallReturns == \A c \in Callers : pc[c] # "idle" ~> pc[c] = "idle"
=============================================================================
