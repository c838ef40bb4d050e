--------------------------- MODULE WebServerProofs ---------------------------
(***************************************************************************)
(* For every number of connections, heap, readings and faults: the state   *)
(* keeps its types, and the replies are not mixed.                         *)
(***************************************************************************)
EXTENDS WebServer, SequenceTheorems, TLAPS

Segments == {"whole", "head", "tail"}

States == {"none", "connected", "half", "waiting", "closed", "gone", "done"}

Clients ==
  [at : States, path : {"page", "api"}, whole : BOOLEAN, asked : 0 .. MaxReadings, got : Replies]

Connections == [phase : {"free", "open", "closing", "halfClosed"}, reply : Replies]

(* Both ends of a connection agree on how far the request has come: the    *)
(* first segment still to be read is its beginning, and once the server    *)
(* closes, the reply it has queued is the one this client asked for, if    *)
(* his request could be recognised.                                        *)
Agree(c) ==
  /\ held[c] = Len(inbox[c])
  /\ conn[c].phase = "free" => inbox[c] = <<>>
  /\ client[c].at = "half" => ~client[c].whole
  /\ client[c].at \in {"half", "waiting", "done"} => client[c].asked <= env
  /\ conn[c].phase = "open" /\ client[c].at = "connected" => inbox[c] = <<>>
  /\ conn[c].phase = "open" /\ client[c].at \in {"half", "waiting"} =>
       inbox[c] # <<>> /\ (Head(inbox[c]) = "whole" <=> client[c].whole)
  /\ Recognised(client[c]) =>
       /\ conn[c].phase = "closing" /\ client[c].at \in {"half", "waiting"} =>
            ReplyFits(client[c], conn[c].reply)
       /\ client[c].at = "done" => ReplyFits(client[c], client[c].got)

(* The inductive invariant.                                                *)
WebInv == WebTypeOK /\ \A c \in Conns : Agree(c)

-----------------------------------------------------------------------------
(* Types of the values the actions write.                                  *)

LEMMA NoReplyType == NoReply \in Replies
BY DEF NoReply, Replies

LEMMA NoClientType == NoClient \in Clients
BY NoReplyType, WebAssumption DEF NoClient, Clients, States

LEMMA ClosedType == Closed \in Connections
BY NoReplyType DEF Closed, Connections

(* What the receive callback makes is a reply.                             *)
LEMMA MadeType ==
  ASSUME WebTypeOK, NEW c \in Conns
  PROVE  Made(c) \in Replies
BY WebAssumption DEF Made, WebTypeOK, Replies

(* The types of one connection.                                            *)
LEMMA TypesAt ==
  ASSUME WebTypeOK, NEW c \in Conns
  PROVE  /\ conn[c] \in Connections
         /\ inbox[c] \in Seq(Segments)
         /\ held[c] \in Nat
         /\ client[c] \in Clients
BY DEF WebTypeOK, Connections, Segments, Clients, States

-----------------------------------------------------------------------------
(* Sequences of segments.                                                  *)

LEMMA AppendSegment ==
  ASSUME NEW s \in Seq(Segments), NEW x \in Segments
  PROVE  /\ Append(s, x) \in Seq(Segments)
         /\ Len(Append(s, x)) = Len(s) + 1
         /\ Append(s, x) # <<>>
         /\ Head(Append(s, x)) = IF s = <<>> THEN x ELSE Head(s)
<1>1. /\ Append(s, x) \in Seq(Segments)
      /\ Len(Append(s, x)) = Len(s) + 1
      /\ Append(s, x) # <<>>
  BY AppendProperties
<1>2. Head(Append(s, x)) = Append(s, x)[1]
  BY <1>1, HeadTailProperties
<1>3. CASE s = <<>>
  BY <1>1, <1>2, <1>3, AppendProperties
<1>4. CASE s # <<>>
  <2>1. Len(s) \in Nat \ {0} /\ Head(s) = s[1]
    BY <1>4, EmptySeq, LenProperties, HeadTailProperties
  <2>2. Append(s, x)[1] = s[1]
    BY <2>1, AppendProperties
  <2> QED BY <1>2, <1>4, <2>1, <2>2
<1> QED BY <1>1, <1>3, <1>4

LEMMA TailSegment ==
  ASSUME NEW s \in Seq(Segments), s # <<>>
  PROVE  /\ Tail(s) \in Seq(Segments)
         /\ Len(Tail(s)) = Len(s) - 1
         /\ Len(s) - 1 \in Nat
BY EmptySeq, LenProperties, HeadTailProperties

-----------------------------------------------------------------------------
(* The Wi-Fi task, the link and the readings leave every connection alone. *)
Outside == WifiStep \/ LinkLost \/ LinkBack \/ Publish

(* The ranges of what the connections do not touch.                        *)
OutsideOK ==
  /\ wifi \in {"start", "init", "retry", "connecting", "joined", "serve", "watch", "deleted"}
  /\ status \in {"idle", "init", "connecting", "got_ip", "error"}
  /\ link \in BOOLEAN /\ started \in BOOLEAN
  /\ port80 \in {"free", "listening", "stranded"}
  /\ env \in 0 .. MaxReadings
  /\ faults \in 0 .. MaxFaults

LEMMA OutsideStep ==
  ASSUME OutsideOK, Outside
  PROVE  OutsideOK' /\ env <= env' /\ UNCHANGED connVars
<1> USE WebAssumption DEF OutsideOK, wifiVars, connVars
<1>1. CASE StartTask
  BY <1>1 DEF StartTask, GoTo
<1>2. CASE ChipReady
  BY <1>2 DEF ChipReady, GoTo
<1>3. CASE ChipFails
  BY <1>3 DEF ChipFails, GoTo, Fails
<1>4. CASE BeginConnect
  BY <1>4 DEF BeginConnect, GoTo
<1>5. CASE Joined
  BY <1>5 DEF Joined, GoTo
<1>6. CASE NotJoined
  BY <1>6 DEF NotJoined, GoTo
<1>7. CASE GotIp
  BY <1>7 DEF GotIp, GoTo
<1>8. CASE LinkDownSeen
  BY <1>8 DEF LinkDownSeen, GoTo
<1>9. CASE AlreadyStarted
  BY <1>9 DEF AlreadyStarted, GoTo
<1>10. CASE ServerStarts
  BY <1>10 DEF ServerStarts
<1>11. CASE BindFails
  BY <1>11 DEF BindFails, GoTo, Fails
<1>12. CASE ListenFails
  BY <1>12 DEF ListenFails, Fails
<1>13. CASE LinkLost
  <2>1. link' \in BOOLEAN
    BY <1>13, Zenon DEF LinkLost
  <2>2. UNCHANGED <<wifiVars, connVars, env, faults>>
    BY <1>13 DEF LinkLost
  <2> QED BY <2>1, <2>2
<1>14. CASE LinkBack
  BY <1>14 DEF LinkBack
<1>15. CASE Publish
  BY <1>15 DEF Publish
<1> QED
  BY <1>1, <1>2, <1>3, <1>4, <1>5, <1>6, <1>7, <1>8, <1>9, <1>10, <1>11, <1>12, <1>13, <1>14,
     <1>15
  DEF Outside, WifiStep

(* The type invariant in two halves.                                       *)
TypesOf(c) ==
  /\ conn[c] \in Connections
  /\ inbox[c] \in Seq(Segments)
  /\ held[c] \in Nat
  /\ client[c] \in Clients

Tables ==
  /\ conn \in [Conns -> Connections]
  /\ inbox \in [Conns -> Seq(Segments)]
  /\ held \in [Conns -> Nat]
  /\ client \in [Conns -> Clients]

LEMMA TypeHalves == WebTypeOK <=> OutsideOK /\ Tables /\ response \in Replies
BY DEF WebTypeOK, OutsideOK, Tables, Connections, Clients, States, Segments

LEMMA OutsideKeeps ==
  ASSUME WebInv, Outside
  PROVE  WebInv'
<1>1. OutsideOK' /\ env <= env' /\ UNCHANGED connVars
  BY OutsideStep, TypeHalves DEF WebInv
<1>2. WebTypeOK'
  <2>1. OutsideOK' /\ Tables' /\ (response \in Replies)'
    BY <1>1, TypeHalves DEF WebInv, connVars, Tables
  <2> QED BY <2>1 DEF WebTypeOK, OutsideOK, Tables, Connections, Clients, States, Segments
<1>3. ASSUME NEW c \in Conns PROVE Agree(c)'
  <2>1. client[c].asked \in Nat /\ env \in Nat /\ env' \in Nat
    BY <1>1, TypeHalves, WebAssumption DEF WebInv, Tables, Clients, OutsideOK
  <2>2. ASSUME NEW reply, client[c].asked \in Nat, ReplyFits(client[c], reply)
        PROVE  ReplyFits(client[c], reply)'
    BY <1>1, <2>1, <2>2 DEF ReplyFits, connVars
  <2> QED BY <1>1, <2>1, <2>2 DEF WebInv, Agree, Recognised, connVars
<1> QED BY <1>2, <1>3 DEF WebInv

-----------------------------------------------------------------------------
(* A step of connection c alone: if the values it leaves at c are right,   *)
(* everything else is as it was.                                           *)
At(c) ==
  /\ conn' = [conn EXCEPT ![c] = conn'[c]]
  /\ inbox' = [inbox EXCEPT ![c] = inbox'[c]]
  /\ held' = [held EXCEPT ![c] = held'[c]]
  /\ client' = [client EXCEPT ![c] = client'[c]]
  /\ UNCHANGED <<wifiVars, link, env>>

LEMMA OneConnection ==
  ASSUME WebInv, NEW c \in Conns, At(c),
         response' \in Replies, faults' \in 0 .. MaxFaults,
         TypesOf(c)', Agree(c)'
  PROVE  WebInv'
<1>1. OutsideOK /\ Tables
  BY TypeHalves DEF WebInv
<1>2. OutsideOK'
  BY <1>1 DEF At, OutsideOK, wifiVars
<1>3. Tables'
  BY <1>1 DEF At, Tables, TypesOf
<1>4. WebTypeOK'
  BY <1>2, <1>3 DEF WebTypeOK, OutsideOK, Tables, Connections, Clients, States, Segments
<1>5. ASSUME NEW d \in Conns, d # c PROVE Agree(d)'
  <2>1. /\ conn'[d] = conn[d] /\ inbox'[d] = inbox[d]
        /\ held'[d] = held[d] /\ client'[d] = client[d] /\ env' = env
    BY <1>1, <1>5 DEF At, Tables
  <2>2. Agree(d)
    BY DEF WebInv
  <2> QED BY <2>1, <2>2 DEF Agree, ReplyFits, Recognised
<1> QED BY <1>4, <1>5 DEF WebInv

(* Nothing is left to agree on once the control block is given back and    *)
(* the client is told, or is not there any more.                           *)
LEMMA DiscardKeeps ==
  ASSUME WebInv, NEW c \in Conns, Discard(c), Reset(c),
         UNCHANGED <<wifiVars, link, env>>,
         response' \in Replies, faults' \in 0 .. MaxFaults
  PROVE  WebInv'
<1>1. Tables /\ TypesOf(c) /\ held[c] = Len(inbox[c])
  BY TypeHalves DEF WebInv, Agree, Tables, TypesOf
<1>2. conn'[c] = Closed /\ inbox'[c] = <<>> /\ held'[c] = 0 /\ client'[c] = NoClient
  BY <1>1, LenProperties DEF Discard, Reset, Tables, TypesOf
<1>3. At(c)
  BY <1>1, <1>2 DEF At, Discard, Reset, Tables
<1>4. TypesOf(c)'
  BY <1>2, NoClientType, ClosedType, EmptySeq DEF TypesOf
<1>5. Agree(c)'
  BY <1>2 DEF Agree, Closed, NoClient
<1> QED BY <1>3, <1>4, <1>5, OneConnection

(* What holds at c before any step.                                        *)
LEMMA Before ==
  ASSUME WebInv, NEW c \in Conns
  PROVE  /\ WebTypeOK /\ Tables /\ TypesOf(c) /\ Agree(c)
         /\ response \in Replies /\ faults \in 0 .. MaxFaults /\ env \in 0 .. MaxReadings
BY TypeHalves DEF WebInv, OutsideOK, Tables, TypesOf

-----------------------------------------------------------------------------
(* The clients.                                                            *)

LEMMA AcceptKeeps ==
  ASSUME WebInv, NEW c \in Conns, Accept(c)
  PROVE  WebInv'
<1> DEFINE new == [NoClient EXCEPT !.at = "connected"]
<1>1. Tables /\ TypesOf(c) /\ Agree(c)
  BY Before
<1>2. UNCHANGED <<inbox, held, wifiVars, link, response, env, faults>>
  BY DEF Accept, Unserved
<1>3. /\ conn'[c] = [conn[c] EXCEPT !.phase = "open"]
      /\ client'[c] = new
  BY <1>1 DEF Accept, Tables
<1>4. At(c)
  BY <1>1, <1>2, <1>3 DEF At, Accept, Tables, wifiVars
<1>5. new \in Clients /\ new.at = "connected"
  BY NoClientType DEF Clients, States
<1>6. TypesOf(c)'
  BY <1>1, <1>2, <1>3, <1>5 DEF TypesOf, Connections
<1>7. inbox[c] = <<>>
  BY <1>1 DEF Accept, Agree
<1>8. conn'[c].phase = "open"
  BY <1>1, <1>3 DEF TypesOf, Connections
<1>9. Agree(c)'
  BY <1>1, <1>2, <1>3, <1>5, <1>7, <1>8 DEF Agree
<1> QED BY <1>2, <1>4, <1>6, <1>9, Before, OneConnection

(* A request, whole or its first half, is the first segment to be read.    *)
LEMMA SendRequestKeeps ==
  ASSUME WebInv, NEW c \in Conns, NEW path \in {"page", "api"}, NEW whole \in BOOLEAN,
         SendRequest(c, path, whole)
  PROVE  WebInv'
<1> DEFINE segment == IF whole THEN "whole" ELSE "head"
<1>1. Tables /\ TypesOf(c) /\ Agree(c) /\ env \in 0 .. MaxReadings
  BY Before
<1>2. UNCHANGED <<conn, wifiVars, link, response, env, faults>>
  BY DEF SendRequest, Unserved
<1>3. /\ client'[c].at = IF whole THEN "waiting" ELSE "half"
      /\ client'[c].path = path
      /\ client'[c].whole = whole
      /\ client'[c].asked = env
      /\ client'[c].got = client[c].got
      /\ client'[c] \in Clients
      /\ client' = [client EXCEPT ![c] = client'[c]]
  BY <1>1 DEF SendRequest, Tables, TypesOf, Clients, States
<1>4. /\ inbox'[c] = Append(inbox[c], segment)
      /\ held'[c] = held[c] + 1
  BY <1>1 DEF SendRequest, Arrives, Tables
<1>5. At(c)
  BY <1>1, <1>2, <1>3, <1>4 DEF At, SendRequest, Arrives, Tables, wifiVars
<1>6. inbox[c] = <<>> /\ held[c] = Len(inbox[c]) /\ conn[c].phase = "open"
  BY <1>1 DEF SendRequest, Agree
<1>7. segment \in Segments /\ (segment = "whole" <=> whole)
  BY DEF Segments
<1>8. /\ inbox'[c] \in Seq(Segments) /\ inbox'[c] # <<>>
      /\ Len(inbox'[c]) = Len(inbox[c]) + 1
      /\ Head(inbox'[c]) = segment
  BY <1>1, <1>4, <1>6, <1>7, AppendSegment DEF TypesOf
<1>9. TypesOf(c)'
  BY <1>1, <1>2, <1>3, <1>4, <1>8 DEF TypesOf
<1>10. Agree(c)'
  <2>1. conn'[c].phase = "open" /\ held'[c] = Len(inbox'[c])
    BY <1>2, <1>4, <1>6, <1>8
  <2>2. client'[c].asked <= env'
    BY <1>1, <1>2, <1>3, WebAssumption
  <2>3. client'[c].at = "half" => ~client'[c].whole
    BY <1>3, Zenon
  <2>4. Head(inbox'[c]) = "whole" <=> client'[c].whole
    BY <1>3, <1>7, <1>8
  <2> QED BY <1>3, <1>8, <2>1, <2>2, <2>3, <2>4 DEF Agree
<1> QED BY <1>2, <1>5, <1>9, <1>10, Before, OneConnection

(* The rest of it comes behind what has not been read.                     *)
LEMMA SendRestKeeps ==
  ASSUME WebInv, NEW c \in Conns, SendRest(c)
  PROVE  WebInv'
<1>1. Tables /\ TypesOf(c) /\ Agree(c)
  BY Before
<1>2. UNCHANGED <<conn, wifiVars, link, response, env, faults>>
  BY DEF SendRest, Unserved
<1>3. client[c].at = "half" /\ conn[c].phase # "free"
  BY DEF SendRest
<1>4. /\ client'[c] = [client[c] EXCEPT !.at = "waiting"]
      /\ inbox'[c] = Append(inbox[c], "tail")
      /\ held'[c] = held[c] + 1
  BY <1>1 DEF SendRest, Arrives, Tables
<1>5. At(c)
  BY <1>1, <1>2, <1>4 DEF At, SendRest, Arrives, Tables, wifiVars
<1>6. /\ client'[c].at = "waiting"
      /\ client'[c].path = client[c].path
      /\ client'[c].whole = client[c].whole
      /\ client'[c].asked = client[c].asked
      /\ client'[c] \in Clients
  BY <1>1, <1>4 DEF TypesOf, Clients, States
<1>7. /\ inbox'[c] \in Seq(Segments) /\ inbox'[c] # <<>>
      /\ Len(inbox'[c]) = Len(inbox[c]) + 1
      /\ inbox[c] # <<>> => Head(inbox'[c]) = Head(inbox[c])
  BY <1>1, <1>4, AppendSegment DEF TypesOf, Segments
<1>8. TypesOf(c)'
  BY <1>1, <1>2, <1>4, <1>6, <1>7 DEF TypesOf
<1>9. Agree(c)'
  BY <1>1, <1>2, <1>3, <1>4, <1>6, <1>7 DEF Agree, ReplyFits, Recognised
<1> QED BY <1>2, <1>5, <1>8, <1>9, Before, OneConnection

(* A client who closes or vanishes expects nothing any more.               *)
LEMMA LeaveKeeps ==
  ASSUME WebInv, NEW c \in Conns, HangUp(c) \/ Vanish(c)
  PROVE  WebInv'
<1>1. Tables /\ TypesOf(c) /\ Agree(c)
  BY Before
<1>2. UNCHANGED <<conn, inbox, held, wifiVars, link, response, env, faults>>
  BY DEF HangUp, Vanish, Unserved
<1>3. CASE HangUp(c)
  <2>1. client'[c] = [client[c] EXCEPT !.at = "closed"]
    BY <1>1, <1>3 DEF HangUp, Tables
  <2>2. client'[c] \in Clients /\ client'[c].at = "closed"
    BY <1>1, <2>1 DEF TypesOf, Clients, States
  <2>3. At(c)
    BY <1>1, <1>2, <1>3, <2>1 DEF At, HangUp, Tables, wifiVars
  <2>4. TypesOf(c)'
    BY <1>1, <1>2, <2>2 DEF TypesOf
  <2>5. Agree(c)'
    BY <1>1, <1>2, <2>2 DEF Agree
  <2> QED BY <1>2, <2>3, <2>4, <2>5, Before, OneConnection
<1>4. CASE Vanish(c)
  <2>1. client'[c] = [NoClient EXCEPT !.at = "gone"]
    BY <1>1, <1>4 DEF Vanish, Tables
  <2>2. client'[c] \in Clients /\ client'[c].at = "gone"
    BY <2>1, NoClientType DEF Clients, States
  <2>3. At(c)
    BY <1>1, <1>2, <1>4, <2>1 DEF At, Vanish, Tables, wifiVars
  <2>4. TypesOf(c)'
    BY <1>1, <1>2, <2>2 DEF TypesOf
  <2>5. Agree(c)'
    BY <1>1, <1>2, <2>2 DEF Agree
  <2> QED BY <1>2, <2>3, <2>4, <2>5, Before, OneConnection
<1> QED BY <1>3, <1>4

-----------------------------------------------------------------------------
(* The receive callback and lwIP.                                          *)

(* The reply made for the segment at the head is the one this client       *)
(* asked for, and the values in it are not older than the question.        *)
LEMMA MadeFits ==
  ASSUME WebInv, NEW c \in Conns, Called(c), client[c].at \in {"half", "waiting"},
         Recognised(client[c])
  PROVE  ReplyFits(client[c], Made(c))
<1>1. TypesOf(c) /\ Agree(c) /\ env \in 0 .. MaxReadings
  BY Before
<1>2. /\ Head(inbox[c]) = "whole" <=> client[c].whole
      /\ client[c].asked <= env
  BY <1>1 DEF Called, Agree
<1>3. client[c].asked \in Nat
  BY <1>1, WebAssumption DEF TypesOf, Clients
<1>4. CASE client[c].path = "api"
  BY <1>1, <1>2, <1>3, <1>4, WebAssumption DEF Made, ReplyFits, Recognised
<1>5. CASE client[c].path = "page"
  BY <1>5 DEF Made, ReplyFits
<1> QED BY <1>1, <1>4, <1>5 DEF TypesOf, Clients

LEMMA ReplyKeeps ==
  ASSUME WebInv, NEW c \in Conns, Reply(c)
  PROVE  WebInv'
<1>1. Tables /\ TypesOf(c) /\ Agree(c) /\ WebTypeOK
  BY Before
<1>2. UNCHANGED <<client, wifiVars, link, env, faults>> /\ response' = Made(c) /\ Called(c)
  BY DEF Reply
<1>3. Made(c) \in Replies
  BY <1>1, MadeType
<1>4. /\ conn'[c] = [phase |-> "closing", reply |-> Made(c)]
      /\ inbox'[c] = Tail(inbox[c])
      /\ held'[c] = held[c] - 1
  BY <1>1 DEF Reply, PbufFree, Tables
<1>5. /\ inbox'[c] \in Seq(Segments)
      /\ held'[c] \in Nat /\ held'[c] = Len(inbox'[c])
  BY <1>1, <1>2, <1>4, TailSegment DEF TypesOf, Agree, Called
<1>6. At(c)
  BY <1>1, <1>2, <1>4 DEF At, Reply, Tables, wifiVars
<1>7. TypesOf(c)'
  BY <1>1, <1>2, <1>3, <1>4, <1>5 DEF TypesOf, Connections
<1>8. conn'[c].phase = "closing" /\ conn'[c].reply = Made(c)
  BY <1>4
<1>9. ASSUME client[c].at \in {"half", "waiting"}, Recognised(client[c])
      PROVE  ReplyFits(client[c], Made(c))
  BY <1>2, <1>9, MadeFits
<1>10. Agree(c)'
  BY <1>1, <1>2, <1>5, <1>8, <1>9 DEF Agree, ReplyFits, Recognised
<1> QED BY <1>2, <1>3, <1>6, <1>7, <1>10, Before, OneConnection

(* tcp_write or tcp_close fails: the callback frees its segment, lwIP the  *)
(* ones behind it.                                                         *)
LEMMA AbortKeeps ==
  ASSUME WebInv, NEW c \in Conns, WriteFails(c) \/ CloseFails(c)
  PROVE  WebInv'
<1>1. Tables /\ TypesOf(c) /\ Agree(c) /\ Made(c) \in Replies
  BY Before, MadeType
<1>2. /\ Called(c) /\ FreeAndAbort(c) /\ Reset(c) /\ response' = Made(c)
      /\ UNCHANGED <<wifiVars, link, env>>
  BY DEF WriteFails, CloseFails
<1>3. faults' \in 0 .. MaxFaults
  BY Before, WebAssumption DEF WriteFails, CloseFails, Fails
<1>4. held[c] = Len(inbox[c]) /\ inbox[c] \in Seq(Segments) /\ inbox[c] # <<>>
  BY <1>1, <1>2 DEF Agree, TypesOf, Called
<1>5. PbufFree(c) - Len(Tail(inbox[c])) = 0
  BY <1>4, TailSegment DEF PbufFree
<1>6. Discard(c)
  <2>1. held[c] - Len(inbox[c]) = 0
    BY <1>4, LenProperties
  <2> QED BY <1>1, <1>2, <1>5, <2>1 DEF FreeAndAbort, Discard, Tables
<1> QED BY <1>1, <1>2, <1>3, <1>6, DiscardKeeps

LEMMA RecvFinKeeps ==
  ASSUME WebInv, NEW c \in Conns, RecvFin(c)
  PROVE  WebInv'
<1>1. Tables /\ TypesOf(c) /\ Agree(c)
  BY Before
<1>2. /\ UNCHANGED <<inbox, held, client, wifiVars, link, response, env, faults>>
      /\ client[c].at = "closed"
  BY DEF RecvFin, CalledWithout, Unserved
<1>3. conn'[c] = [conn[c] EXCEPT !.phase = "closing"]
  BY <1>1 DEF RecvFin, Tables
<1>4. conn'[c] \in Connections /\ conn'[c].phase = "closing"
  BY <1>1, <1>3 DEF TypesOf, Connections
<1>5. At(c)
  BY <1>1, <1>2, <1>3 DEF At, RecvFin, Tables, wifiVars
<1>6. TypesOf(c)'
  BY <1>1, <1>2, <1>4 DEF TypesOf
<1>7. Agree(c)'
  BY <1>1, <1>2, <1>4 DEF Agree
<1> QED BY <1>2, <1>5, <1>6, <1>7, Before, OneConnection

(* A tcp_close that fails there changes the phase alone.                   *)
LEMMA RecvFinFailsKeeps ==
  ASSUME WebInv, NEW c \in Conns, RecvFinFails(c)
  PROVE  WebInv'
<1>1. Tables /\ TypesOf(c) /\ Agree(c) /\ response \in Replies
  BY Before
<1>2. /\ UNCHANGED <<inbox, held, client, wifiVars, link, response, env>>
      /\ client[c].at = "closed"
  BY DEF RecvFinFails, CalledWithout
<1>3. conn'[c] = [conn[c] EXCEPT !.phase = "halfClosed"]
  BY <1>1 DEF RecvFinFails, Tables
<1>4. conn'[c] \in Connections /\ conn'[c].phase = "halfClosed"
  BY <1>1, <1>3 DEF TypesOf, Connections
<1>5. At(c)
  BY <1>1, <1>2, <1>3 DEF At, RecvFinFails, Tables, wifiVars
<1>6. TypesOf(c)'
  BY <1>1, <1>2, <1>4 DEF TypesOf
<1>7. Agree(c)'
  BY <1>1, <1>2, <1>4 DEF Agree
<1>8. faults' \in 0 .. MaxFaults
  BY Before, WebAssumption DEF RecvFinFails, Fails
<1> QED BY <1>1, <1>2, <1>5, <1>6, <1>7, <1>8, OneConnection

(* The control block is given back without an answer.                      *)
LEMMA DropKeeps ==
  ASSUME WebInv, NEW c \in Conns, RecvAfterClose(c) \/ LetGo(c) \/ Dropped(c)
  PROVE  WebInv'
<1>1. Discard(c) /\ Reset(c) /\ UNCHANGED <<wifiVars, link, response, env, faults>>
  BY DEF RecvAfterClose, LetGo, Dropped, Unserved
<1> QED BY <1>1, Before, DiscardKeeps

(* The client reads the reply queued for it.                               *)
LEMMA DeliverKeeps ==
  ASSUME WebInv, NEW c \in Conns, Deliver(c)
  PROVE  WebInv'
<1>1. Tables /\ TypesOf(c) /\ Agree(c)
  BY Before
<1>2. /\ UNCHANGED <<wifiVars, link, response, env, faults>>
      /\ conn[c].phase = "closing" /\ client[c].at \in {"half", "waiting"}
  BY DEF Deliver, Listens, Unserved
<1>3. conn'[c] = Closed /\ inbox'[c] = <<>> /\ held'[c] = 0
  BY <1>1, LenProperties DEF Deliver, Discard, Tables, TypesOf, Agree
<1>4. /\ client'[c].at = "done"
      /\ client'[c].got = conn[c].reply
      /\ client'[c].path = client[c].path
      /\ client'[c].whole = client[c].whole
      /\ client'[c].asked = client[c].asked
      /\ client'[c] \in Clients
      /\ client' = [client EXCEPT ![c] = client'[c]]
  BY <1>1 DEF Deliver, WriteFlagCopy, Tables, TypesOf, Clients, States, Connections
<1>5. At(c)
  BY <1>1, <1>2, <1>3, <1>4 DEF At, Deliver, Discard, Tables, wifiVars
<1>6. TypesOf(c)'
  BY <1>3, <1>4, ClosedType, EmptySeq DEF TypesOf
<1>7. /\ Recognised(client[c]) => ReplyFits(client[c], conn[c].reply)
      /\ client[c].asked <= env
  BY <1>1, <1>2 DEF Agree
<1>8. Agree(c)'
  BY <1>2, <1>3, <1>4, <1>7, EmptySeq DEF Agree, Closed, ReplyFits, Recognised
<1> QED BY <1>2, <1>5, <1>6, <1>8, Before, OneConnection

-----------------------------------------------------------------------------
(* The invariant, and what follows from it.                                *)

LEMMA InitEstablishes == Init => WebInv
<1> SUFFICES ASSUME Init PROVE WebInv
  OBVIOUS
<1>1. OutsideOK
  <2>1. link \in BOOLEAN /\ started \in BOOLEAN
    BY Zenon DEF Init
  <2>2. env \in 0 .. MaxReadings /\ faults \in 0 .. MaxFaults
    BY WebAssumption DEF Init
  <2> QED BY <2>1, <2>2 DEF Init, OutsideOK
<1>2. Tables
  BY NoClientType, ClosedType, EmptySeq DEF Init, Tables
<1>3. WebTypeOK
  BY <1>1, <1>2, NoReplyType, TypeHalves DEF Init
<1>4. ASSUME NEW c \in Conns PROVE Agree(c)
  BY EmptySeq DEF Init, Agree, Closed, NoClient
<1> QED BY <1>3, <1>4 DEF WebInv

LEMMA StepKeeps == WebInv /\ [Next]_vars => WebInv'
<1> SUFFICES ASSUME WebInv, [Next]_vars PROVE WebInv'
  OBVIOUS
<1>1. CASE Outside
  BY <1>1, OutsideKeeps
<1>2. ASSUME NEW c \in Conns, Callback(c) PROVE WebInv'
  BY <1>2, ReplyKeeps, AbortKeeps, RecvFinKeeps, RecvFinFailsKeeps DEF Callback
<1>3. ASSUME NEW c \in Conns, Stack(c) PROVE WebInv'
  BY <1>3, DropKeeps, DeliverKeeps DEF Stack
<1>4. ASSUME NEW c \in Conns, Browser(c) PROVE WebInv'
  BY <1>4, AcceptKeeps, SendRequestKeeps, SendRestKeeps, LeaveKeeps DEF Browser
<1>5. ASSUME NEW c \in Conns, Dropped(c) PROVE WebInv'
  BY <1>5, DropKeeps
<1>6. CASE UNCHANGED vars
  <2>1. WebTypeOK'
    BY <1>6 DEF vars, wifiVars, connVars, WebInv, WebTypeOK
  <2>2. ASSUME NEW c \in Conns PROVE Agree(c)'
    BY <1>6 DEF vars, connVars, WebInv, Agree, ReplyFits, Recognised
  <2> QED BY <2>1, <2>2 DEF WebInv
<1> QED BY <1>1, <1>2, <1>3, <1>4, <1>5, <1>6 DEF Next, Outside

LEMMA WebInvHolds == Spec => []WebInv
BY InitEstablishes, StepKeeps, PTL DEF Spec

(* Every variable keeps its range: no handler leaves a phase, a reply or a *)
(* reading that the code has no name for.                                  *)
THEOREM WebTypeCorrect == Spec => []WebTypeOK
<1>1. WebInv => WebTypeOK
  BY DEF WebInv
<1> QED BY <1>1, WebInvHolds, PTL

(* Two static buffers are enough for any number of clients: with the copy  *)
(* flag of tcp_write, each whose request is recognised reads the answer to *)
(* his own request, with values not older than the question.               *)
THEOREM OwnReplies == Spec => []RepliesUnmixed
<1>1. WebInv => RepliesUnmixed
  BY DEF WebInv, Agree, RepliesUnmixed
<1> QED BY <1>1, WebInvHolds, PTL
=============================================================================
