-------------------------------- MODULE Dccm --------------------------------
(***************************************************************************)
(* The desktop end of the ActiveSync connection (jornada/dccm.py) and the  *)
(* connection file it leaves for the other tools (jornada/state.py), with  *)
(* devices at the other end of the wire that answer, fall silent, vanish   *)
(* without a word or hang up, and a listener that may be killed.           *)
(*                                                                         *)
(* Both directions are streams without framing.  A device's stream is kept *)
(* in 16-bit units, the size of a password reply; the body of an info      *)
(* packet is left out, its header stands for the packet.                   *)
(***************************************************************************)
EXTENDS Naturals, Sequences, FiniteSets

CONSTANTS
    Conns,        \* connections made to port 5679, over time
    Peer,         \* those that come from the device's address
    HasPassword,  \* those on which the device is locked
    EchoEarly,    \* a locked device also answers pings before it has replied
    MaxMissedPings, MaxPacket, MinPacket, \* DCCM_MAX_MISSED_PINGS, DCCM_MAX/MIN_PACKET_SIZE
    Info, Runt, Challenge,  \* the words devices send
    MaxKills,     \* bound on kills of the listener
    None

DCCM_PING == 305419896 \* 0x12345678

ASSUME ConnsAssumption == Peer \subseteq Conns /\ HasPassword \subseteq Conns /\ None \notin Conns
ASSUME WordsAssumption ==
    /\ {MinPacket, MaxPacket, Info, Runt, Challenge, MaxMissedPings, MaxKills} \subseteq Nat
    /\ MinPacket <= Info /\ Info < MaxPacket /\ 0 < Runt /\ Runt < MinPacket
    /\ MaxPacket <= Challenge /\ Challenge # DCCM_PING /\ MaxPacket <= DCCM_PING
    /\ EchoEarly \in BOOLEAN

VARIABLES
    running,   \* the listener process is there
    password,  \* it was started with a password
    backlog,   \* connections waiting to be accepted
    serving,   \* the connection _serve_client is busy with
    session,   \* its Session
    file,      \* connection.json: the connection it was written for
    \* the devices
    stage,     \* "away", "hello", "asked", "on", "vanished" or "hungup"
    toDesk,    \* units on their way to the listener
    toDevice,  \* words on their way to the device: "ping" or "password"
    reset,     \* the listener's end of the connection is closed
    \* history
    verdict,   \* what the device replied to the password: "none", "yes", "no"
    silent,    \* pings the device has received since it last sent one
    leftover,  \* connections that were served when the listener was killed
    kills

server == <<running, password, backlog, serving, session, file>>
devices == <<stage, verdict, silent>>
vars == <<server, devices, toDesk, toDevice, reset, leftover, kills>>

Session == [info : BOOLEAN, locked : BOOLEAN, awaiting_password_reply : BOOLEAN,
            authenticated : BOOLEAN, missed_pings : 0..MaxMissedPings]

Fresh == [info |-> FALSE, locked |-> FALSE, awaiting_password_reply |-> FALSE,
          authenticated |-> FALSE, missed_pings |-> 0]

(* A 32-bit word as it travels: the low half first.                        *)
Word(n) == <<n % 65536, n \div 65536>>
Header(s) == s[1] + 65536 * s[2]

Init ==
    /\ running = TRUE /\ password \in BOOLEAN /\ backlog = <<>> /\ serving = None /\ session = Fresh /\ file = None
    /\ stage = [c \in Conns |-> "away"] /\ toDesk = [c \in Conns |-> <<>>]
    /\ toDevice = [c \in Conns |-> <<>>] /\ reset = {}
    /\ verdict = [c \in Conns |-> "none"] /\ silent = [c \in Conns |-> 0]
    /\ leftover = {} /\ kills = 0

-------------------------------------------------------------------------------
(* The devices.                                                            *)
Says(c, units) == toDesk' = [toDesk EXCEPT ![c] = @ \o units]

InTouch(c) == c \in Peer /\ c \notin reset

(* PC Link is tapped: a locked device presents its challenge first.  Two   *)
(* connections may wait to be accepted (listen(2)).                        *)
Connect(c) ==
    /\ stage[c] = "away" /\ running /\ Len(backlog) < 2
    /\ backlog' = Append(backlog, c)
    /\ stage' = [stage EXCEPT ![c] = "hello"]
    /\ IF c \in HasPassword THEN Says(c, Word(Challenge)) ELSE UNCHANGED toDesk
    /\ UNCHANGED <<running, password, serving, session, file, toDevice, reset, verdict, silent, leftover, kills>>

(* It announces itself; it may send an empty word first, or a runt packet. *)
Announces(c) ==
    /\ stage[c] = "hello" /\ InTouch(c)
    /\ stage' = [stage EXCEPT ![c] = IF c \in HasPassword THEN "asked" ELSE "on"]
    /\ \E w \in {Word(Info), Word(0) \o Word(Info), Word(Runt)} : Says(c, w)
    /\ UNCHANGED <<server, verdict, silent, toDevice, reset, leftover, kills>>

(* It replies to the password, in 16 bits: it is the right one, or not.    *)
Replies(c) ==
    /\ stage[c] = "asked" /\ InTouch(c) /\ toDevice[c] # <<>> /\ Head(toDevice[c]) = "password"
    /\ toDevice' = [toDevice EXCEPT ![c] = Tail(@)]
    /\ \/ verdict' = [verdict EXCEPT ![c] = "yes"] /\ Says(c, <<1>>)
       \/ verdict' = [verdict EXCEPT ![c] = "no"] /\ Says(c, <<0>>)
    /\ stage' = [stage EXCEPT ![c] = "on"]
    /\ UNCHANGED <<server, silent, reset, leftover, kills>>

(* It answers a ping with a ping, or lets it pass.  What it is sent it     *)
(* takes in order, unless it still has the password to think about.        *)
HearsPing(c) ==
    /\ stage[c] \in {"hello", "asked", "on"} /\ InTouch(c)
    /\ \E i \in 1 .. (IF EchoEarly THEN 2 ELSE 1) :
         /\ i <= Len(toDevice[c]) /\ toDevice[c][i] = "ping"
         /\ toDevice' = [toDevice EXCEPT ![c] = SubSeq(@, 1, i - 1) \o SubSeq(@, i + 1, Len(@))]
    /\ \/ /\ stage[c] = "on" \/ EchoEarly
          /\ Says(c, Word(DCCM_PING)) /\ silent' = [silent EXCEPT ![c] = 0]
       \/ /\ silent' = [silent EXCEPT ![c] = IF @ < MaxMissedPings THEN @ + 1 ELSE @]
          /\ UNCHANGED toDesk
    /\ UNCHANGED <<server, stage, verdict, reset, leftover, kills>>

(* The serial cable is pulled (nothing tells the listener), or the device  *)
(* hangs up.                                                               *)
Leaves(c) ==
    /\ stage[c] \in {"hello", "asked", "on"} /\ InTouch(c)
    /\ \E s \in {"vanished", "hungup"} : stage' = [stage EXCEPT ![c] = s]
    /\ UNCHANGED <<server, verdict, silent, toDesk, toDevice, reset, leftover, kills>>

-------------------------------------------------------------------------------
(* The listener.                                                           *)
Sends(c, w) == toDevice' = [toDevice EXCEPT ![c] = Append(@, w)]

(* serve_forever takes one connection at a time; strangers are turned away.*)
Accept ==
    /\ running /\ serving = None /\ backlog # <<>>
    /\ backlog' = Tail(backlog)
    /\ IF Head(backlog) \in Peer
       THEN serving' = Head(backlog) /\ session' = Fresh /\ UNCHANGED reset
       ELSE reset' = reset \cup {Head(backlog)} /\ UNCHANGED <<serving, session>>
    /\ UNCHANGED <<running, password, file, devices, toDesk, toDevice, leftover, kills>>

(* Mutant: the connection file is removed only when nothing went wrong.    *)
EndSession_KeepsFile ==
    /\ serving' = None /\ session' = Fresh /\ reset' = reset \cup {serving} /\ UNCHANGED file

(* The finally clause of _serve_client.                                    *)
EndSession ==
    /\ serving' = None /\ session' = Fresh /\ reset' = reset \cup {serving} /\ file' = None

(* The session goes on as s; it is announced when first authenticated.     *)
Continue(s) ==
    /\ session' = s
    /\ file' = IF s.authenticated /\ ~session.authenticated THEN serving ELSE file
    /\ UNCHANGED <<serving, reset>>

(* n units are taken from the stream of the connection being served.       *)
Takes(n) ==
    /\ toDesk' = [toDesk EXCEPT ![serving] = SubSeq(@, n + 1, Len(@))]
    /\ UNCHANGED <<running, password, backlog, devices, leftover, kills>>

stream == toDesk[serving]

ReadReply ==
    /\ running /\ serving # None /\ session.awaiting_password_reply /\ Len(stream) >= 1
    /\ IF stream[1] = 0
       THEN EndSession /\ UNCHANGED toDevice
       ELSE /\ Sends(serving, "ping")
            /\ Continue([session EXCEPT !.awaiting_password_reply = FALSE, !.authenticated = TRUE])
    /\ Takes(1)

(* Mutant: an info packet authenticates a locked device.                   *)
handle_info_IgnoresLock ==
    /\ Sends(serving, "ping")
    /\ Continue([session EXCEPT !.info = TRUE, !.authenticated = TRUE])

handle_info ==
    IF session.locked
    THEN /\ Continue([session EXCEPT !.info = TRUE, !.awaiting_password_reply = TRUE])
         /\ UNCHANGED toDevice
    ELSE /\ Sends(serving, "ping")
         /\ Continue([session EXCEPT !.info = TRUE, !.authenticated = TRUE])

handle_challenge ==
    IF ~password
    THEN EndSession /\ UNCHANGED toDevice
    ELSE Sends(serving, "password") /\ Continue([session EXCEPT !.locked = TRUE])

(* Mutant: only the timer changes the count of unanswered pings.           *)
handle_ping_NoReset == Continue(session) /\ UNCHANGED toDevice

handle_ping == Continue([session EXCEPT !.missed_pings = 0]) /\ UNCHANGED toDevice

ReadHeader ==
    /\ running /\ serving # None /\ ~session.awaiting_password_reply /\ Len(stream) >= 2
    /\ LET header == Header(stream)
       IN \/ header = 0 /\ Continue(session) /\ UNCHANGED toDevice
          \/ header = DCCM_PING /\ handle_ping
          \/ 0 < header /\ header < MinPacket /\ EndSession /\ UNCHANGED toDevice
          \/ MinPacket <= header /\ header < MaxPacket /\ handle_info
          \/ MaxPacket <= header /\ header # DCCM_PING /\ handle_challenge
    /\ Takes(2)

(* Mutant: the end of the stream is read as nothing to read.               *)
ReadFails_HalfWordOnly ==
    /\ running /\ serving # None
    /\ ~session.awaiting_password_reply /\ Len(stream) = 1
    /\ EndSession /\ UNCHANGED toDevice /\ Takes(Len(stream))

(* Nothing more comes: the device has hung up, or half a word is all there *)
(* is for ten seconds.                                                     *)
ReadFails ==
    /\ running /\ serving # None
    /\ \/ stage[serving] = "hungup" /\ Len(stream) < (IF session.awaiting_password_reply THEN 1 ELSE 2)
       \/ ~session.awaiting_password_reply /\ Len(stream) = 1
    /\ EndSession /\ UNCHANGED toDevice /\ Takes(Len(stream))

(* The ping interval has passed and there is nothing to read.  The loop    *)
(* ends as soon as the last ping is sent.                                  *)
Tick ==
    /\ running /\ serving # None /\ stream = <<>> /\ stage[serving] # "hungup"
    /\ Sends(serving, "ping")
    /\ IF session.missed_pings + 1 >= MaxMissedPings
       THEN EndSession
       ELSE Continue([session EXCEPT !.missed_pings = @ + 1])
    /\ UNCHANGED <<running, password, backlog, devices, toDesk, leftover, kills>>

(* SIGTERM: no clause of the program runs; what it was doing is lost.      *)
Kill ==
    /\ running /\ kills < MaxKills /\ kills' = kills + 1
    /\ running' = FALSE /\ serving' = None /\ session' = Fresh /\ backlog' = <<>>
    /\ leftover' = leftover \cup ({serving} \ {None})
    /\ reset' = reset \cup ({serving} \ {None}) \cup {backlog[i] : i \in DOMAIN backlog}
    /\ UNCHANGED <<password, file, devices, toDesk, toDevice>>

(* Ctrl-C: the finally clauses run.                                        *)
Interrupt ==
    /\ running /\ kills < MaxKills /\ kills' = kills + 1
    /\ running' = FALSE /\ backlog' = <<>>
    /\ IF serving = None THEN UNCHANGED <<serving, session, reset, file>> ELSE EndSession
    /\ UNCHANGED <<password, devices, toDesk, toDevice, leftover>>

Restart ==
    /\ ~running /\ running' = TRUE
    /\ UNCHANGED <<password, backlog, serving, session, file, devices, toDesk, toDevice, reset, leftover, kills>>

Listen == Accept \/ ReadReply \/ ReadHeader \/ ReadFails \/ Tick

Device == \E c \in Conns : Connect(c) \/ Announces(c) \/ Replies(c) \/ HearsPing(c) \/ Leaves(c)

Next == Device \/ Listen \/ Kill \/ Interrupt \/ Restart

(* The listener keeps reading and its timer keeps running; a listener that *)
(* is gone is started again.  Devices owe nothing.                         *)
Spec == Init /\ [][Next]_vars
LiveSpec == Spec /\ WF_vars(Listen) /\ WF_vars(Restart)

-------------------------------------------------------------------------------
(* Properties.                                                             *)
TypeOK ==
    /\ running \in BOOLEAN /\ password \in BOOLEAN /\ serving \in Conns \cup {None} /\ session \in Session
    /\ file \in Conns \cup {None} /\ reset \subseteq Conns /\ leftover \subseteq Conns
    /\ backlog \in Seq(Conns) /\ Len(backlog) <= 2
    /\ stage \in [Conns -> {"away", "hello", "asked", "on", "vanished", "hungup"}]
    /\ verdict \in [Conns -> {"none", "yes", "no"}] /\ silent \in [Conns -> 0..MaxMissedPings]
    /\ toDesk \in [Conns -> Seq(0..65535)] /\ toDevice \in [Conns -> Seq({"ping", "password"})]
    /\ kills \in 0..MaxKills

(* connection.json tells the other tools of the session that is being      *)
(* served, by a device that has introduced itself, or it was left behind   *)
(* by a listener that was killed during that very session.                 *)
FileIsCurrent ==
    file # None => \/ file = serving /\ session.authenticated /\ session.info /\ file \in Peer
                   \/ file \in leftover

(* A locked device is announced only after it has accepted the password.   *)
AnnouncedIfAccepted == file # None /\ file \in HasPassword => verdict[file] = "yes"

(* A device is given up for its silence only when it has not answered any  *)
(* of the last MaxMissedPings pings.                                       *)
Waiting(words) == {i \in DOMAIN words : words[i] = "ping"}
Unanswered(c) == silent[c] + Cardinality(Waiting(toDevice'[c]))
DroppedForSilence ==
    [][\A c \in Conns :
         serving = c /\ serving' = None /\ session.missed_pings = MaxMissedPings - 1
           /\ Len(toDevice'[c]) > Len(toDevice[c]) => Unanswered(c) >= MaxMissedPings]_vars

(* A device that is gone, with or without a word, does not keep the        *)
(* listener, or the next device that calls, waiting for ever.              *)
GoneIsNoticed ==
    \A c \in Conns : (serving = c /\ stage[c] \in {"vanished", "hungup"}) ~> serving # c
===============================================================================
