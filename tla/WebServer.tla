------------------------------ MODULE WebServer ------------------------------
(***************************************************************************)
(* WifiTask and HttpServer: a task that joins the network, watches the     *)
(* link and starts the server once, and the lwIP callbacks that answer one *)
(* request per connection out of two static buffers.                       *)
(*                                                                         *)
(* lwIP runs in the background of cyw43_arch: a callback holds its lock    *)
(* from beginning to end, and http_server_init takes the same lock, so     *)
(* each of them is one step.  Clients and link do what they like between   *)
(* any two steps; a client may vanish without a word.                      *)
(*                                                                         *)
(* Of lwIP the model knows a pool of control blocks, the data segments     *)
(* (pbufs) that wait for the receive callback, and a heap that holds a few *)
(* copies of replies that are not acknowledged yet.                        *)
(***************************************************************************)
EXTENDS Integers, Sequences, FiniteSets

CONSTANTS
  Conns,        \* control blocks for connections (MEMP_NUM_TCP_PCB)
  HeapReplies,  \* replies the lwIP heap can hold (MEM_SIZE)
  MaxReadings,  \* bound: readings the environment task publishes
  MaxFaults     \* bound: calls of cyw43 and lwIP that fail for no visible reason

ASSUME WebAssumption ==
  /\ HeapReplies \in Nat \ {0}
  /\ MaxReadings \in Nat
  /\ MaxFaults \in Nat

VARIABLES
  wifi,      \* where wifi_task is
  status,    \* g_wifi_status.state
  link,      \* the station has joined and has an address
  port80,    \* what lwIP holds for port 80
  started,   \* g_http_server_started
  conn,      \* per control block: its phase and the reply it has to send
  inbox,     \* per control block: segments the receive callback has not seen
  held,      \* per control block: pbufs in use
  client,    \* per control block: the browser at the other end
  response,  \* g_http_response
  env,       \* how often g_env_data was set; 0 is valid = false
  faults     \* how often something failed

wifiVars == <<wifi, status, port80, started>>
connVars == <<conn, inbox, held, client, response>>
vars == <<wifiVars, link, connVars, env, faults>>

NoReply == [kind |-> "none", reading |-> 0]
NoClient == [at |-> "none", path |-> "page", whole |-> TRUE, asked |-> 0, got |-> NoReply]
Closed == [phase |-> "free", reply |-> NoReply]

Init ==
  /\ wifi = "start" /\ status = "idle" /\ link = FALSE
  /\ port80 = "free" /\ started = FALSE
  /\ conn = [c \in Conns |-> Closed]
  /\ inbox = [c \in Conns |-> <<>>]
  /\ held = [c \in Conns |-> 0]
  /\ client = [c \in Conns |-> NoClient]
  /\ response = NoReply
  /\ env = 0
  /\ faults = 0

Fails ==
  /\ faults < MaxFaults
  /\ faults' = faults + 1

-----------------------------------------------------------------------------
(* The Wi-Fi task.  Every wifi_status_set is a step of its own.            *)
GoTo(place, shown) ==
  /\ wifi' = place
  /\ status' = shown
  /\ UNCHANGED <<port80, started, connVars, env>>

StartTask == wifi = "start" /\ GoTo("init", "init") /\ UNCHANGED <<link, faults>>

(* cyw43_arch_init.                                                        *)
ChipReady == wifi = "init" /\ GoTo("retry", status) /\ UNCHANGED <<link, faults>>

ChipFails == wifi = "init" /\ Fails /\ GoTo("deleted", "error") /\ UNCHANGED link

(* The head of the outer loop.                                             *)
BeginConnect ==
  wifi = "retry" /\ GoTo("connecting", "connecting") /\ UNCHANGED <<link, faults>>

(* cyw43_arch_wifi_connect_timeout_ms.                                     *)
Joined == wifi = "connecting" /\ link' = TRUE /\ GoTo("joined", status) /\ UNCHANGED faults

NotJoined == wifi = "connecting" /\ GoTo("retry", "error") /\ UNCHANGED <<link, faults>>

GotIp == wifi = "joined" /\ GoTo("serve", "got_ip") /\ UNCHANGED <<link, faults>>

(* Mutant of LinkDownSeen: the inner loop is not left.                     *)
LinkDownOverlooked ==
  wifi = "watch" /\ ~link /\ GoTo("watch", status) /\ UNCHANGED <<link, faults>>

(* cyw43_tcpip_link_status, asked every ten seconds.                       *)
LinkDownSeen ==
  wifi = "watch" /\ ~link /\ GoTo("retry", "error") /\ UNCHANGED <<link, faults>>

(* The access point goes away and may come back before anyone looks.       *)
LinkLost == link /\ link' = FALSE /\ UNCHANGED <<wifiVars, connVars, env, faults>>

LinkBack ==
  /\ wifi \in {"joined", "serve", "watch"} /\ ~link
  /\ link' = TRUE
  /\ UNCHANGED <<wifiVars, connVars, env, faults>>

-----------------------------------------------------------------------------
(* http_server_init, called after every successful connect.                *)
AlreadyStarted ==
  /\ wifi = "serve" /\ started
  /\ GoTo("watch", status)
  /\ UNCHANGED <<link, faults>>

ServerStarts ==
  /\ wifi = "serve" /\ ~started /\ port80 = "free"
  /\ port80' = "listening" /\ started' = TRUE
  /\ wifi' = "watch"
  /\ UNCHANGED <<status, link, connVars, env, faults>>

(* Mutant of BindFails: the server counts as started.                      *)
BindFailsMarked ==
  /\ wifi = "serve" /\ ~started
  /\ IF port80 = "free" THEN Fails ELSE UNCHANGED faults
  /\ started' = TRUE
  /\ wifi' = "watch"
  /\ UNCHANGED <<port80, status, link, connVars, env>>

(* tcp_new_ip_type or tcp_bind fails; the control block is given back.     *)
(* tcp_bind always fails on a port that another block is bound to.         *)
BindFails ==
  /\ wifi = "serve" /\ ~started
  /\ IF port80 = "free" THEN Fails ELSE UNCHANGED faults
  /\ GoTo("watch", status)
  /\ UNCHANGED link

(* tcp_listen fails: the bound block is not given back.                    *)
ListenFails ==
  /\ wifi = "serve" /\ ~started /\ port80 = "free"
  /\ Fails
  /\ port80' = "stranded"
  /\ wifi' = "watch"
  /\ UNCHANGED <<started, status, link, connVars, env>>

-----------------------------------------------------------------------------
(* The clients.  A browser asks for the page or for the values; its        *)
(* request may come in one segment or with the first line cut in two.      *)
Unserved(c) == UNCHANGED <<wifiVars, link, response, env, faults>>

(* A new connection; http_accept_callback sets the receive callback.       *)
Accept(c) ==
  /\ port80 = "listening" /\ link
  /\ conn[c].phase = "free"
  /\ conn' = [conn EXCEPT ![c].phase = "open"]
  /\ client' = [client EXCEPT ![c] = [NoClient EXCEPT !.at = "connected"]]
  /\ UNCHANGED <<inbox, held>> /\ Unserved(c)

Arrives(c, segment) ==
  /\ inbox' = [inbox EXCEPT ![c] = Append(@, segment)]
  /\ held' = [held EXCEPT ![c] = @ + 1]

SendRequest(c, path, whole) ==
  /\ link /\ conn[c].phase = "open" /\ client[c].at = "connected"
  /\ client' = [client EXCEPT ![c].at = IF whole THEN "waiting" ELSE "half",
                              ![c].path = path, ![c].whole = whole, ![c].asked = env]
  /\ Arrives(c, IF whole THEN "whole" ELSE "head")
  /\ UNCHANGED conn /\ Unserved(c)

SendRest(c) ==
  /\ link /\ conn[c].phase # "free" /\ client[c].at = "half"
  /\ client' = [client EXCEPT ![c].at = "waiting"]
  /\ Arrives(c, "tail")
  /\ UNCHANGED conn /\ Unserved(c)

(* A connection opened ahead of need is closed unused.                     *)
HangUp(c) ==
  /\ link /\ conn[c].phase = "open" /\ client[c].at = "connected"
  /\ client' = [client EXCEPT ![c].at = "closed"]
  /\ UNCHANGED <<conn, inbox, held>> /\ Unserved(c)

(* Power off or out of range: no FIN and no RST ever comes.                *)
Vanish(c) ==
  /\ conn[c].phase # "free" /\ client[c].at \in {"connected", "half", "waiting"}
  /\ client' = [client EXCEPT ![c] = [NoClient EXCEPT !.at = "gone"]]
  /\ UNCHANGED <<conn, inbox, held>> /\ Unserved(c)

-----------------------------------------------------------------------------
(* http_recv_callback.  lwIP calls it with the next segment, or with none  *)
(* when the client has closed its side; it never passes a segment together *)
(* with an error, so that branch is not reached.                           *)
WriteFlagNone == FALSE  \* mutant of WriteFlagCopy: lwIP sends out of g_http_response

WriteFlagCopy == TRUE   \* TCP_WRITE_FLAG_COPY

(* http_request_is_api looks at the first line of this segment alone: of a *)
(* line cut in two neither half is recognised.                             *)
Made(c) ==
  IF Head(inbox[c]) = "whole" /\ client[c].path = "api"
    THEN [kind |-> "json", reading |-> env]
    ELSE [kind |-> "html", reading |-> 0]

HeapFull ==
  Cardinality({c \in Conns : conn[c].phase = "closing" /\ conn[c].reply # NoReply})
    >= HeapReplies

(* Mutant of PbufFree: the segment is freed once more on the way out.      *)
PbufFreeTwice(c) == held[c] - 2

(* pbuf_free of the segment that the callback was given.                   *)
PbufFree(c) == held[c] - 1

(* The control block is gone; lwIP frees the segments that it still has.   *)
Discard(c) ==
  /\ conn' = [conn EXCEPT ![c] = Closed]
  /\ inbox' = [inbox EXCEPT ![c] = <<>>]
  /\ held' = [held EXCEPT ![c] = @ - Len(inbox[c])]

(* The callback frees the segment it was given, and with tcp_abort lwIP    *)
(* gives up the control block and the segments behind.                     *)
FreeAndAbort(c) ==
  /\ conn' = [conn EXCEPT ![c] = Closed]
  /\ inbox' = [inbox EXCEPT ![c] = <<>>]
  /\ held' = [held EXCEPT ![c] = PbufFree(c) - Len(Tail(inbox[c]))]

Reset(c) == client' = [client EXCEPT ![c] = NoClient]

Called(c) == conn[c].phase = "open" /\ inbox[c] # <<>>

(* The reply is queued, the segment freed and the connection closed.       *)
Reply(c) ==
  /\ Called(c) /\ ~HeapFull
  /\ response' = Made(c)
  /\ conn' = [conn EXCEPT ![c] = [phase |-> "closing", reply |-> Made(c)]]
  /\ inbox' = [inbox EXCEPT ![c] = Tail(@)]
  /\ held' = [held EXCEPT ![c] = PbufFree(c)]
  /\ UNCHANGED <<client, wifiVars, link, env, faults>>

(* Mutant of WriteFails: the connection is left as it is.                  *)
WriteFailsIgnored(c) ==
  /\ Called(c) /\ HeapFull
  /\ response' = Made(c)
  /\ inbox' = [inbox EXCEPT ![c] = Tail(@)]
  /\ held' = [held EXCEPT ![c] = PbufFree(c)]
  /\ UNCHANGED <<conn, client, wifiVars, link, env, faults>>

(* Mutant of WriteFails: pbuf_free is forgotten.                           *)
WriteFailsKeeping(c) ==
  /\ Called(c) /\ HeapFull
  /\ response' = Made(c)
  /\ conn' = [conn EXCEPT ![c] = Closed]
  /\ inbox' = [inbox EXCEPT ![c] = <<>>]
  /\ held' = [held EXCEPT ![c] = @ - Len(Tail(inbox[c]))]
  /\ Reset(c)
  /\ UNCHANGED <<wifiVars, link, env, faults>>

(* tcp_write finds no room for the copy: pbuf_free and tcp_abort.          *)
WriteFails(c) ==
  /\ Called(c) /\ HeapFull
  /\ response' = Made(c)
  /\ FreeAndAbort(c) /\ Reset(c)
  /\ UNCHANGED <<wifiVars, link, env, faults>>

(* tcp_close fails after the reply was queued and the segment freed:       *)
(* tcp_abort drops the reply.                                              *)
CloseFails(c) ==
  /\ Called(c) /\ ~HeapFull /\ Fails
  /\ response' = Made(c)
  /\ FreeAndAbort(c) /\ Reset(c)
  /\ UNCHANGED <<wifiVars, link, env>>

(* The client has closed his side: called without a segment.               *)
CalledWithout(c) == conn[c].phase = "open" /\ inbox[c] = <<>> /\ client[c].at = "closed"

RecvFin(c) ==
  /\ CalledWithout(c)
  /\ conn' = [conn EXCEPT ![c].phase = "closing"]
  /\ UNCHANGED <<inbox, held, client>> /\ Unserved(c)

(* tcp_close fails and nobody looks at its result; lwIP tells of the       *)
(* client's end only once, and no tcp_poll is set to try again.            *)
RecvFinFails(c) ==
  /\ CalledWithout(c) /\ Fails
  /\ conn' = [conn EXCEPT ![c].phase = "halfClosed"]
  /\ UNCHANGED <<inbox, held, client, wifiVars, link, response, env>>

-----------------------------------------------------------------------------
(* lwIP after tcp_close.                                                   *)
RecvAfterClose(c) ==
  /\ conn[c].phase = "closing" /\ inbox[c] # <<>>
  /\ Discard(c) /\ Reset(c) /\ Unserved(c)

Listens(c) == link /\ client[c].at \in {"half", "waiting"}

Deliver(c) ==
  /\ conn[c].phase = "closing" /\ Listens(c)
  /\ Discard(c)
  /\ client' = [client EXCEPT ![c].at = "done",
                              ![c].got = IF WriteFlagCopy THEN conn[c].reply ELSE response]
  /\ Unserved(c)

(* Both sides have closed, or the retransmissions have run out.            *)
LetGo(c) ==
  /\ conn[c].phase = "closing" /\ ~Listens(c)
  /\ Discard(c) /\ Reset(c) /\ Unserved(c)

(* The station comes back under another address.                           *)
Dropped(c) ==
  /\ conn[c].phase # "free" /\ ~link
  /\ Discard(c) /\ Reset(c) /\ Unserved(c)

(* environment_data_set.                                                   *)
Publish ==
  /\ env < MaxReadings
  /\ env' = env + 1
  /\ UNCHANGED <<wifiVars, link, connVars, faults>>

-----------------------------------------------------------------------------
WifiStep ==
  \/ StartTask \/ ChipReady \/ ChipFails
  \/ BeginConnect \/ Joined \/ NotJoined \/ GotIp \/ LinkDownSeen
  \/ AlreadyStarted \/ ServerStarts \/ BindFails \/ ListenFails

Callback(c) == Reply(c) \/ WriteFails(c) \/ CloseFails(c) \/ RecvFin(c) \/ RecvFinFails(c)

Stack(c) == RecvAfterClose(c) \/ Deliver(c) \/ LetGo(c)

Browser(c) ==
  \/ Accept(c) \/ SendRest(c) \/ HangUp(c) \/ Vanish(c)
  \/ \E path \in {"page", "api"}, whole \in BOOLEAN : SendRequest(c, path, whole)

Next ==
  \/ WifiStep \/ LinkLost \/ LinkBack \/ Publish
  \/ \E c \in Conns : Callback(c) \/ Stack(c) \/ Browser(c) \/ Dropped(c)

(* The scheduler runs wifi_task, and the background interrupt lwIP.        *)
Fairness ==
  /\ WF_vars(WifiStep)
  /\ \A c \in Conns : WF_vars(Callback(c)) /\ WF_vars(Stack(c))

Spec == Init /\ [][Next]_vars /\ Fairness

-----------------------------------------------------------------------------
Replies == {NoReply} \cup [kind : {"html"}, reading : {0}]
                    \cup [kind : {"json"}, reading : 0..MaxReadings]

(* Every variable keeps its range.                                         *)
WebTypeOK ==
  /\ wifi \in {"start", "init", "retry", "connecting", "joined", "serve", "watch", "deleted"}
  /\ status \in {"idle", "init", "connecting", "got_ip", "error"}
  /\ link \in BOOLEAN /\ started \in BOOLEAN
  /\ port80 \in {"free", "listening", "stranded"}
  /\ conn \in [Conns -> [phase : {"free", "open", "closing", "halfClosed"}, reply : Replies]]
  /\ inbox \in [Conns -> Seq({"whole", "head", "tail"})]
  /\ held \in [Conns -> Nat]
  /\ client \in [Conns ->
       [at : {"none", "connected", "half", "waiting", "closed", "gone", "done"},
        path : {"page", "api"}, whole : BOOLEAN, asked : 0..MaxReadings, got : Replies]]
  /\ response \in Replies
  /\ env \in 0..MaxReadings
  /\ faults \in 0..MaxFaults

(* What README.md promises for the path: the page, or JSON; and values no  *)
(* older than the request.                                                 *)
ReplyFits(cl, reply) ==
  /\ reply.kind = IF cl.path = "api" THEN "json" ELSE "html"
  /\ reply.kind = "json" => reply.reading \in cl.asked..env

Recognised(cl) == cl.whole \/ cl.path = "page"

(* Although every reply is made in the same two static buffers, a browser  *)
(* reads the answer to its own request, with values no older than that     *)
(* request, even if the buffers were rewritten before lwIP could send it.  *)
(* Stated for a request for the values only if its first line comes whole: *)
(* ApiServesJson is about the others.                                      *)
RepliesUnmixed ==
  \A c \in Conns :
    client[c].at = "done" /\ Recognised(client[c]) => ReplyFits(client[c], client[c].got)

(* What README.md says of /api and /api/env: whoever asks for the values   *)
(* gets JSON, in however many segments his request arrives.                *)
ApiServesJson ==
  \A c \in Conns :
    client[c].at = "done" /\ client[c].path = "api" => client[c].got.kind = "json"

(* Every pbuf goes back to the pool, whether its reply was queued, the     *)
(* heap was full, the close failed, more segments came behind it or the    *)
(* link went away: none stays in use once its connection is over.          *)
SegmentsReturned == \A c \in Conns : held[c] > 0 ~> held[c] = 0

(* Whoever has sent something is done with: the control block becomes      *)
(* free, whether the reply could be queued, the heap was full, the close   *)
(* behind it failed or the link went away.  Who closes his side unused is  *)
(* done with unless that tcp_close fails, whose result is not looked at.   *)
RequestsSettled ==
  \A c \in Conns :
    /\ inbox[c] # <<>> ~> conn[c].phase = "free"
    /\ client[c].at = "closed" ~> conn[c].phase \in {"free", "halfClosed"}

(* "Got IP" is not shown for ever over a link that is gone, wherever       *)
(* between the join and the ten-second poll it was lost.                   *)
StatusFollowsLink == (status = "got_ip" /\ ~link) ~> (status # "got_ip" \/ link)

(* If the station keeps reconnecting, the server listens in the end,       *)
(* although http_server_init may fail and is tried again only then; unless *)
(* tcp_listen failed, which leaves port 80 taken for good.                 *)
ServerComesUp ==
  ([]<>(wifi = "serve") /\ [](port80 # "stranded")) => <>(port80 = "listening")
=============================================================================
