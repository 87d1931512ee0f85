--------------------------- MODULE AdnlConnection ---------------------------
(* One liteserver session: the two AES-CTR keystreams, the `intact` flag, and *)
(* the query loop, over a reliable ordered byte stream that a dropped future  *)
(* or a socket error can abandon between any two bytes.                       *)
(*                                                                            *)
(* A byte on the wire is its keystream position and the frame it belongs to:  *)
(* a reader standing anywhere else reads noise.                               *)
EXTENDS Naturals, Sequences

CONSTANTS PREFIX,                \* bytes of the length prefix (4 in the code)
          MIN_FRAME, MAX_FRAME,  \* smallest and largest frame body
          MAX_FRAMES_PER_QUERY,  \* frames read while waiting for one answer
          Messages,              \* sizes of the query messages callers build
          MaxQueries,            \* bound: queries put on the wire
          MaxServerFrames        \* bound: frames the server sends

ASSUME ConstantsAssumption ==
  /\ PREFIX \in Nat \ {0}
  /\ MIN_FRAME \in Nat \ {0}
  /\ MAX_FRAME \in Nat /\ MIN_FRAME <= MAX_FRAME
  /\ MAX_FRAMES_PER_QUERY \in Nat \ {0}
  /\ Messages \subseteq Nat \ {0}
  /\ MaxQueries \in Nat
  /\ MaxServerFrames \in Nat

VARIABLES pc,           \* "closed", "idle", "write", "prefix" or "body"
          intact,       \* the flag of the same name
          tx, rx,       \* bytes each client keystream has covered
          pending,      \* what write_all has still to hand over
          got,          \* what read_exact has taken off the socket so far
          len,          \* the body length open_len returned
          query_id,     \* the query being asked; ids are drawn fresh
          frames,       \* frames this query has read
          undecodable,  \* of those, the ones no message decoded from
          result,       \* what the last call returned
          answer,       \* which query the last answer handed back belongs to
          toServer, toClient,  \* bytes in flight
          srx, stx,     \* bytes each server keystream has covered
          heard,        \* the last query the server has read
          sent          \* frames the server has sent

client == <<pc, intact, tx, rx, pending, got, len, query_id, frames,
            undecodable, result, answer>>
server == <<srx, stx, heard, sent>>
wire == <<toServer, toClient>>
loop == <<len, query_id, frames, undecodable>>
vars == <<client, server, wire>>

Kinds == {"query", "answer", "other", "unknown", "corrupt"}
Frame == [kind : Kinds, id : 0..MaxQueries, len : Nat]
Byte == [pos : Nat, frm : Frame]
Results == {"none", "Ok", "NoAnswer", "Malformed", "Desynchronized", "Frame",
            "Transport", "Handshake", "NoRandomness", "Cancelled"}

(* The bytes of a frame encrypted from keystream position `at` on. *)
Sealed(frm, at) ==
  [i \in 1..(PREFIX + frm.len) |-> [pos |-> at + i - 1, frm |-> frm]]

(* Bytes decrypt to what was sealed only at the position they were sealed at. *)
Aligned(bytes, at) == \A i \in 1..Len(bytes) : bytes[i].pos = at + i - 1

----------------------------------------------------------------------------
Init == /\ pc = "closed" /\ intact = FALSE
        /\ tx = 0 /\ rx = 0 /\ srx = 0 /\ stx = 0
        /\ pending = <<>> /\ got = <<>> /\ toServer = <<>> /\ toClient = <<>>
        /\ len = 0 /\ query_id = 0 /\ frames = 0 /\ undecodable = 0
        /\ result = "none" /\ answer = 0 /\ heard = 0 /\ sent = 0

(* connect: randomness, the handshake packet, one write. A failure leaves no *)
(* session behind; the packet is not under the frame keystreams.             *)
Connect == /\ pc = "closed" /\ pc' = "idle" /\ intact' = TRUE
           /\ UNCHANGED <<tx, rx, pending, got, loop, result, answer, server, wire>>

ConnectFails == /\ pc = "closed"
                /\ result' \in {"NoRandomness", "Handshake", "Transport"}
                /\ UNCHANGED <<pc, intact, tx, rx, pending, got, loop, answer,
                               server, wire>>

(* A call that ends leaves the query loop with this outcome. *)
Return(outcome) == /\ pc' = "idle" /\ result' = outcome
                   /\ pending' = <<>> /\ got' = <<>>

(* recv up to its first await: the flag goes down before a byte moves. *)
StartRecv == pc' = "prefix" /\ intact' = FALSE /\ got' = <<>>

(* query, refused before anything moves. The random draws come first, then   *)
(* check, then seal's refusal of a message no frame carries.                 *)
QueryNoRandomness == /\ pc = "idle" /\ Return("NoRandomness")
                     /\ UNCHANGED <<intact, tx, rx, loop, answer, server, wire>>

QueryDesynchronized == /\ pc = "idle" /\ ~intact /\ Return("Desynchronized")
                       /\ UNCHANGED <<intact, tx, rx, loop, answer, server, wire>>

(* Mutant: seal encrypts before it measures. *)
QueryTooLarge_SealsFirst(size) ==
  /\ pc = "idle" /\ intact /\ size + MIN_FRAME > MAX_FRAME /\ Return("Frame")
  /\ tx' = tx + PREFIX + size + MIN_FRAME
  /\ UNCHANGED <<intact, rx, loop, answer, server, wire>>

QueryTooLarge(size) == /\ pc = "idle" /\ intact
                       /\ size + MIN_FRAME > MAX_FRAME
                       /\ Return("Frame")
                       /\ UNCHANGED <<intact, tx, rx, loop, answer, server, wire>>

(* Mutant: send does not check the flag. *)
Query_Unchecked(size) ==
  /\ pc = "idle" /\ query_id < MaxQueries /\ size + MIN_FRAME <= MAX_FRAME
  /\ pending' = Sealed([kind |-> "query", id |-> query_id + 1, len |-> size + MIN_FRAME], tx)
  /\ tx' = tx + PREFIX + size + MIN_FRAME
  /\ pc' = "write" /\ intact' = FALSE
  /\ query_id' = query_id + 1 /\ frames' = 0 /\ undecodable' = 0
  /\ UNCHANGED <<rx, got, len, result, answer, server, wire>>

(* query: seal moves the send keystream over the whole frame at once, the    *)
(* flag goes down, and write_all starts.                                     *)
Query(size) ==
  /\ pc = "idle" /\ intact /\ query_id < MaxQueries
  /\ size + MIN_FRAME <= MAX_FRAME
  /\ LET frm == [kind |-> "query", id |-> query_id + 1, len |-> size + MIN_FRAME]
     IN  pending' = Sealed(frm, tx) /\ tx' = tx + PREFIX + frm.len
  /\ pc' = "write" /\ intact' = FALSE
  /\ query_id' = query_id + 1 /\ frames' = 0 /\ undecodable' = 0
  /\ UNCHANGED <<rx, got, len, result, answer, server, wire>>

WriteSome == /\ pc = "write" /\ Len(pending) > 1
             /\ toServer' = Append(toServer, Head(pending))
             /\ pending' = Tail(pending)
             /\ UNCHANGED <<pc, intact, tx, rx, got, loop, result, answer,
                            server, toClient>>

(* The last byte: send raises the flag and recv lowers it with no await      *)
(* between, so the next state anyone can see is recv's.                      *)
WriteLast == /\ pc = "write" /\ Len(pending) = 1
             /\ toServer' = Append(toServer, Head(pending))
             /\ pending' = <<>>
             /\ StartRecv
             /\ UNCHANGED <<tx, rx, loop, result, answer, server, toClient>>

(* How many bytes the read_exact in progress asks for. *)
Wanted == IF pc = "prefix" THEN PREFIX ELSE len

Taken == Append(got, Head(toClient))

ReadSome == /\ pc \in {"prefix", "body"} /\ toClient # <<>>
            /\ Len(got) + 1 < Wanted
            /\ got' = Taken /\ toClient' = Tail(toClient)
            /\ UNCHANGED <<pc, intact, tx, rx, pending, loop, result, answer,
                           server, toServer>>

(* What the prefix decrypts to: the length the server wrote, or noise. *)
Lengths(prefix) == IF Aligned(prefix, rx) THEN {prefix[1].frm.len}
                   ELSE 0..(MAX_FRAME + 1)

(* The prefix is whole: open_len moves the keystream, then judges the length. *)
OpenLen ==
  /\ pc = "prefix" /\ toClient # <<>> /\ Len(got) + 1 = PREFIX
  /\ toClient' = Tail(toClient)
  /\ rx' = rx + PREFIX
  /\ \E n \in Lengths(Taken) :
       \/ /\ n \notin MIN_FRAME..MAX_FRAME /\ Return("Frame") /\ UNCHANGED len
       \/ /\ n \in MIN_FRAME..MAX_FRAME
          /\ pc' = "body" /\ len' = n /\ got' = <<>> /\ UNCHANGED <<pending, result>>
  /\ UNCHANGED <<intact, tx, query_id, frames, undecodable, answer, server, toServer>>

(* The frame was read whole and was not the answer: wait for another one, or *)
(* give up when the budget is spent. The session stays usable either way.    *)
Skip(misread) ==
  /\ frames' = frames + 1 /\ undecodable' = misread
  /\ UNCHANGED answer
  /\ \/ frames + 1 < MAX_FRAMES_PER_QUERY /\ StartRecv /\ UNCHANGED <<pending, result>>
     \/ /\ frames + 1 = MAX_FRAMES_PER_QUERY /\ intact' = TRUE
        /\ Return(IF misread = MAX_FRAMES_PER_QUERY THEN "Malformed" ELSE "NoAnswer")

(* An answer counts only when it echoes the id of the query being asked. *)
IsAnswer(frm) == frm.len > MIN_FRAME /\ frm.kind = "answer" /\ frm.id = query_id

(* The body is whole: open_body moves the keystream and checks the checksum; *)
(* an empty payload is a confirmation, an unknown message is counted.        *)
OpenBody ==
  /\ pc = "body" /\ toClient # <<>> /\ Len(got) + 1 = len
  /\ toClient' = Tail(toClient)
  /\ rx' = rx + len
  /\ LET frm == Taken[1].frm
         sound == Aligned(Taken, rx) /\ frm.kind # "corrupt"
     IN  \/ /\ ~sound /\ Return("Frame")
            /\ UNCHANGED <<intact, frames, undecodable, answer>>
         \/ /\ sound /\ IsAnswer(frm)
            /\ intact' = TRUE /\ answer' = frm.id /\ Return("Ok")
            /\ UNCHANGED <<frames, undecodable>>
         \/ /\ sound /\ ~IsAnswer(frm)
            /\ Skip(IF frm.len > MIN_FRAME /\ frm.kind = "unknown"
                    THEN undecodable + 1 ELSE undecodable)
  /\ UNCHANGED <<tx, len, query_id, server, toServer>>

(* The socket fails under a read or a write: `?` leaves with the flag down. *)
TransportFails == /\ pc \in {"write", "prefix", "body"}
                  /\ Return("Transport")
                  /\ UNCHANGED <<intact, tx, rx, loop, answer, server, wire>>

(* The future is dropped at an await (a deadline passed, or the caller went   *)
(* away): no code runs, and what read_exact held is gone.                     *)
Cancel == /\ pc \in {"write", "prefix", "body"}
          /\ Return("Cancelled")
          /\ UNCHANGED <<intact, tx, rx, loop, answer, server, wire>>

----------------------------------------------------------------------------
(* The liteserver, external: it decrypts whole frames in order and sends any *)
(* run of frames under its own keystream, answers late or twice among them.  *)
ServerReads ==
  /\ toServer # <<>>
  /\ LET n == PREFIX + toServer[1].frm.len
     IN  /\ n <= Len(toServer)
         /\ Aligned(SubSeq(toServer, 1, n), srx)
         /\ srx' = srx + n
         /\ heard' = toServer[1].frm.id
         /\ toServer' = SubSeq(toServer, n + 1, Len(toServer))
  /\ UNCHANGED <<client, stx, sent, toClient>>

ServerSends(frm) ==
  /\ pc # "closed" /\ sent < MaxServerFrames
  /\ frm.kind = "answer" => frm.id \in 1..heard
  /\ sent' = sent + 1
  /\ toClient' = toClient \o Sealed(frm, stx)
  /\ stx' = stx + PREFIX + frm.len
  /\ UNCHANGED <<client, srx, heard, toServer>>

(* Frames with a payload, an empty confirmation, a body that fails its        *)
(* checksum, and lengths just outside the accepted range.                     *)
ServerFrames ==
  [kind : {"answer"}, id : 1..MaxQueries, len : {MAX_FRAME}]
    \cup [kind : {"other", "unknown", "corrupt"}, id : {0}, len : {MAX_FRAME}]
    \cup [kind : {"other"}, id : {0}, len : {MIN_FRAME - 1, MIN_FRAME, MAX_FRAME + 1}]

ClientNext == \/ Connect \/ ConnectFails
              \/ QueryNoRandomness \/ QueryDesynchronized
              \/ \E size \in Messages : QueryTooLarge(size) \/ Query(size)
              \/ WriteSome \/ WriteLast \/ ReadSome \/ OpenLen \/ OpenBody
              \/ TransportFails \/ Cancel

Next == ClientNext \/ ServerReads \/ \E frm \in ServerFrames : ServerSends(frm)

Spec == Init /\ [][Next]_vars

----------------------------------------------------------------------------
TypeOK ==
  /\ pc \in {"closed", "idle", "write", "prefix", "body"}
  /\ intact \in BOOLEAN
  /\ tx \in Nat /\ rx \in Nat /\ srx \in Nat /\ stx \in Nat
  /\ pending \in Seq(Byte) /\ got \in Seq(Byte)
  /\ toServer \in Seq(Byte) /\ toClient \in Seq(Byte)
  /\ len \in Nat /\ query_id \in 0..MaxQueries
  /\ frames \in 0..MAX_FRAMES_PER_QUERY /\ undecodable \in 0..frames
  /\ result \in Results /\ answer \in 0..MaxQueries
  /\ heard \in 0..MaxQueries /\ sent \in 0..MaxServerFrames

(* The flag tells the truth: while `intact` is up, each client keystream      *)
(* stands exactly where the other end of the stream stands, so the next byte  *)
(* written or read is decrypted where it was encrypted.                       *)
Synchronized == intact => /\ rx + Len(toClient) = stx
                          /\ srx + Len(toServer) = tx

(* A frame that opens is the frame the server sealed: a read in progress      *)
(* never meets bytes of another keystream position, whatever earlier calls    *)
(* were cancelled, timed out or left unanswered. This is what keeps           *)
(* FrameError out of a session with a sound server.                           *)
ReadsInStep == pc \in {"prefix", "body"} =>
                 Aligned(got, rx) /\ Aligned(toClient, rx + Len(got))

(* No await happens with the flag up: whatever point of a query its future    *)
(* is dropped at, the session it leaves behind refuses every later query.     *)
NoAwaitIntact == pc \in {"write", "prefix", "body"} => ~intact

(* A lost session is lost for good and moves nothing more: no keystream       *)
(* advances, no byte is written or taken, and no answer is handed back.       *)
LostIsFinal ==
  [][pc = "idle" /\ ~intact =>
       /\ pc' = "idle" /\ ~intact' /\ result' # "Ok"
       /\ UNCHANGED <<tx, rx, answer>>
       /\ Len(toServer') <= Len(toServer) /\ Len(toClient') >= Len(toClient)]_vars

(* The connection seen as the session a caller was promised. *)
Session == INSTANCE AdnlSession WITH
  state  <- IF pc = "closed" THEN "closed"
            ELSE IF pc = "idle" /\ ~intact THEN "lost" ELSE "open",
  call   <- IF pc \in {"write", "prefix", "body"} THEN query_id ELSE 0,
  calls  <- query_id,
  answer <- answer

(* The connection keeps the promise of AdnlSession: every call is answered   *)
(* with its own answer, fails, or loses the session, one call at a time.     *)
ImplementsSession == Session!Spec
=============================================================================
