----------------------------- MODULE DccmProofs -----------------------------
(* Safety of the dccm listener, for any connections and any bounds.        *)
EXTENDS Dccm, FiniteSetTheorems, FunctionTheorems, SequenceTheorems, TLAPS

(***************************************************************************)
(* What the connection file says depends on the order in which a session   *)
(* learns things: a reply is only awaited after an info packet, so that a  *)
(* session can only be authenticated once the device has introduced itself.*)
(***************************************************************************)
SessionInv ==
    /\ session \in [info : BOOLEAN, locked : BOOLEAN, awaiting_password_reply : BOOLEAN,
                    authenticated : BOOLEAN, missed_pings : Nat]
    /\ session.awaiting_password_reply => session.info
    /\ session.authenticated => session.info
    /\ serving \in Peer \cup {None}

FileInv == SessionInv /\ FileIsCurrent

LEMMA InitFile == Init => FileInv
BY DEF Init, FileInv, SessionInv, FileIsCurrent, Fresh

(* The session ends in an orderly way: the file goes with it.              *)
LEMMA EndKeeps == FileInv /\ EndSession => FileInv'
BY DEF FileInv, SessionInv, FileIsCurrent, EndSession, Fresh

(* The session goes on, having learnt what it is allowed to learn.         *)
LEMMA ContinueKeeps ==
    ASSUME FileInv, serving # None,
           NEW s \in [info : BOOLEAN, locked : BOOLEAN, awaiting_password_reply : BOOLEAN,
                      authenticated : BOOLEAN, missed_pings : Nat],
           s.awaiting_password_reply => s.info, s.authenticated => s.info,
           session.authenticated => s.authenticated,
           Continue(s), leftover' = leftover
    PROVE  FileInv'
BY ConnsAssumption DEF FileInv, SessionInv, FileIsCurrent, Continue

LEMMA StepFile == FileInv /\ [Next]_vars => FileInv'
<1> SUFFICES ASSUME FileInv, [Next]_vars PROVE FileInv'
  OBVIOUS
<1> USE DEF FileInv
<1> DEFINE Sess == [info : BOOLEAN, locked : BOOLEAN, awaiting_password_reply : BOOLEAN,
                    authenticated : BOOLEAN, missed_pings : Nat]
<1>1. CASE Device
  <2>1. UNCHANGED <<serving, session, file, leftover>>
    BY <1>1 DEF Device, Connect, Announces, Replies, HearsPing, Leaves, server
  <2> QED BY <2>1 DEF SessionInv, FileIsCurrent
<1>2. CASE Accept
  <2>1. file' = file /\ leftover' = leftover /\ (file # None => file \in leftover)
    BY <1>2 DEF Accept, FileIsCurrent
  <2>2. CASE Head(backlog) \in Peer
    <3>1. serving' \in Peer /\ session' = Fresh
      BY <1>2, <2>2 DEF Accept
    <3> QED BY <2>1, <3>1 DEF SessionInv, FileIsCurrent, Fresh
  <2>3. CASE Head(backlog) \notin Peer
    BY <1>2, <2>1, <2>3 DEF Accept, SessionInv, FileIsCurrent
  <2> QED BY <2>2, <2>3
<1>3. CASE ReadReply
  <2>1. CASE EndSession
    BY <2>1, EndKeeps
  <2>2. CASE Continue([session EXCEPT !.awaiting_password_reply = FALSE, !.authenticated = TRUE])
    <3> DEFINE s == [session EXCEPT !.awaiting_password_reply = FALSE, !.authenticated = TRUE]
    <3>1. s \in Sess /\ ~s.awaiting_password_reply /\ s.authenticated /\ s.info
      BY <1>3 DEF ReadReply, SessionInv
    <3>2. serving # None /\ leftover' = leftover
      BY <1>3 DEF ReadReply, Takes
    <3> HIDE DEF s
    <3>3. Continue(s)
      BY <2>2 DEF s
    <3> QED BY <3>1, <3>2, <3>3, ContinueKeeps
  <2> QED BY <1>3, <2>1, <2>2 DEF ReadReply
<1>4. CASE ReadHeader
  <2>1. serving # None /\ leftover' = leftover
    BY <1>4 DEF ReadHeader, Takes
  <2>2. CASE EndSession
    BY <2>2, EndKeeps
  <2>3. CASE Continue(session)
    BY <2>1, <2>3, ContinueKeeps DEF SessionInv
  <2>4. CASE handle_ping
    <3> DEFINE s == [session EXCEPT !.missed_pings = 0]
    <3>1. /\ s \in Sess
          /\ s.awaiting_password_reply => s.info
          /\ s.authenticated = session.authenticated /\ s.info = session.info
      BY DEF SessionInv
    <3>2. Continue(s) /\ (s.authenticated => s.info)
      BY <2>4, <3>1 DEF handle_ping, SessionInv
    <3> HIDE DEF s
    <3> QED BY <2>1, <3>1, <3>2, ContinueKeeps
  <2>5. CASE handle_info
    <3>1. CASE session.locked
      <4> DEFINE s == [session EXCEPT !.info = TRUE, !.awaiting_password_reply = TRUE]
      <4>1. s \in Sess /\ s.info /\ s.authenticated = session.authenticated
        BY DEF SessionInv
      <4>2. Continue(s)
        BY <2>5, <3>1 DEF handle_info
      <4> HIDE DEF s
      <4> QED BY <2>1, <4>1, <4>2, ContinueKeeps
    <3>2. CASE ~session.locked
      <4> DEFINE s == [session EXCEPT !.info = TRUE, !.authenticated = TRUE]
      <4>1. s \in Sess /\ s.info /\ s.authenticated
        BY DEF SessionInv
      <4>2. Continue(s)
        BY <2>5, <3>2 DEF handle_info
      <4> HIDE DEF s
      <4> QED BY <2>1, <4>1, <4>2, ContinueKeeps
    <3> QED BY <3>1, <3>2
  <2>6. CASE handle_challenge
    <3>1. CASE EndSession
      BY <3>1, EndKeeps
    <3>2. CASE Continue([session EXCEPT !.locked = TRUE])
      <4> DEFINE s == [session EXCEPT !.locked = TRUE]
      <4>1. /\ s \in Sess
            /\ s.awaiting_password_reply => s.info
            /\ s.authenticated = session.authenticated /\ s.info = session.info
        BY DEF SessionInv
      <4>2. Continue(s) /\ (s.authenticated => s.info)
        BY <3>2, <4>1 DEF SessionInv
      <4> HIDE DEF s
      <4> QED BY <2>1, <4>1, <4>2, ContinueKeeps
    <3> QED BY <2>6, <3>1, <3>2 DEF handle_challenge
  <2> QED BY <1>4, <2>2, <2>3, <2>4, <2>5, <2>6 DEF ReadHeader
<1>5. CASE ReadFails
  BY <1>5, EndKeeps DEF ReadFails
<1>6. CASE Tick
  <2>1. CASE EndSession
    BY <2>1, EndKeeps
  <2>2. CASE Continue([session EXCEPT !.missed_pings = @ + 1])
    <3> DEFINE s == [session EXCEPT !.missed_pings = @ + 1]
    <3>1. /\ s \in Sess
          /\ s.awaiting_password_reply => s.info
          /\ s.authenticated = session.authenticated /\ s.info = session.info
      BY DEF SessionInv
    <3>2. Continue(s) /\ (s.authenticated => s.info)
      BY <2>2, <3>1 DEF SessionInv
    <3>3. serving # None /\ leftover' = leftover
      BY <1>6 DEF Tick
    <3> HIDE DEF s
    <3> QED BY <3>1, <3>2, <3>3, ContinueKeeps
  <2> QED BY <1>6, <2>1, <2>2 DEF Tick
<1>7. CASE Kill
  BY <1>7 DEF Kill, SessionInv, FileIsCurrent, Fresh
<1>8. CASE Interrupt
  <2>1. CASE serving = None
    BY <1>8, <2>1 DEF Interrupt, SessionInv, FileIsCurrent
  <2>2. CASE serving # None
    BY <1>8, <2>2, EndKeeps DEF Interrupt
  <2> QED BY <2>1, <2>2
<1>9. CASE Restart
  BY <1>9 DEF Restart, SessionInv, FileIsCurrent
<1>10. CASE UNCHANGED vars
  BY <1>10 DEF vars, server, SessionInv, FileIsCurrent
<1> QED BY <1>1, <1>2, <1>3, <1>4, <1>5, <1>6, <1>7, <1>8, <1>9, <1>10 DEF Next, Listen

(* connection.json never tells the other tools of a session that is over   *)
(* or of a device that has not introduced itself, unless the listener was  *)
(* killed in the middle of that session (_announce and the finally clause  *)
(* of _serve_client).                                                      *)
THEOREM FileTellsTheTruth == Spec => []FileIsCurrent
<1>1. FileInv => FileIsCurrent
  BY DEF FileInv
<1> QED BY InitFile, StepFile, <1>1, PTL DEF Spec

(***************************************************************************)
(* The order of the handshake.  What a device has said and the listener    *)
(* has not yet read is the rest of its opening (the challenge, if it is    *)
(* locked, then what it announces), its verdict on the password, and the   *)
(* pings it has answered, in that order; what is still there of each tells *)
(* the session how far it is.  `d' is what there is to know of the device. *)
(***************************************************************************)
Wire == {"ping", "password"}
Stages == {"away", "hello", "asked", "on", "vanished", "hungup"}
View(c) == [stage |-> stage[c], verdict |-> verdict[c], unread |-> toDesk[c],
            silent |-> silent[c], pings |-> Cardinality(Waiting(toDevice[c]))]
IsView(d) == /\ d.stage \in Stages /\ d.verdict \in {"none", "yes", "no"} /\ d.unread \in Seq(Nat)
             /\ d.silent \in 0 .. MaxMissedPings /\ d.pings \in Nat

Announcements == {Word(Info), Word(0) \o Word(Info), Word(Runt)}
Said(v) == IF v = "none" THEN <<>> ELSE IF v = "yes" THEN <<1>> ELSE <<0>>
Pings(n) == [i \in 1 .. 2 * n |-> IF i % 2 = 1 THEN Word(DCCM_PING)[1] ELSE Word(DCCM_PING)[2]]

Sessions == [info : BOOLEAN, locked : BOOLEAN, awaiting_password_reply : BOOLEAN,
             authenticated : BOOLEAN, missed_pings : Nat]
InOrder(c, s) ==
    /\ s.locked => c \in HasPassword
    /\ s.info <=> s.awaiting_password_reply \/ s.authenticated
    /\ s.awaiting_password_reply => s.locked /\ ~s.authenticated
    /\ c \in HasPassword /\ s.info => s.locked
Spoken(c, d) ==
    /\ d.verdict # "none" => c \in HasPassword /\ d.stage \notin {"away", "hello", "asked"}
    /\ d.stage = "asked" => c \in HasPassword
    /\ d.stage = "on" /\ c \in HasPassword => d.verdict # "none"

(* The challenge has been read, or there is none. *)
Challenged(c, s) == s.locked \/ c \notin HasPassword
Unannounced(c, s, d) ==
    /\ d.stage \in {"hello", "vanished", "hungup"} /\ d.verdict = "none" /\ ~s.info
    /\ d.unread = IF Challenged(c, s) THEN <<>> ELSE Word(Challenge)
Openings(c, s) ==
    IF s.info THEN {<<>>}
    ELSE IF Challenged(c, s) THEN Announcements
    ELSE {Word(Challenge) \o x : x \in Announcements}
Rest(s, d, n) == (IF s.authenticated THEN <<>> ELSE Said(d.verdict)) \o Pings(n)
Announced(c, s, d, n) ==
    /\ d.stage \notin {"away", "hello"}
    /\ \E x \in Openings(c, s) : d.unread = x \o Rest(s, d, n)
    /\ c \in HasPassword /\ d.verdict = "none" => n = 0 /\ ~s.authenticated
    /\ c \in HasPassword /\ s.authenticated => d.verdict = "yes"

(* Every ping the session counts as missed the device has passed over or not yet
   heard, unless an answer is under way. *)
Counted(s, d) == s.missed_pings <= d.silent + d.pings \/ d.silent = MaxMissedPings
Follows(c, s, d) ==
    /\ InOrder(c, s) /\ Spoken(c, d)
    /\ \/ Unannounced(c, s, d) /\ Counted(s, d)
       \/ \E n \in Nat : Announced(c, s, d, n) /\ (n = 0 => Counted(s, d))

(* A connection is accepted once, and only one that has been made. *)
QueueInv ==
    /\ backlog \in Seq(Conns)
    /\ \A i, j \in DOMAIN backlog : backlog[i] = backlog[j] => i = j
    /\ \A i \in DOMAIN backlog : backlog[i] # serving /\ stage[backlog[i]] # "away"
    /\ serving \in Peer \cup {None}
Types ==
    /\ toDevice \in [Conns -> Seq(Wire)] /\ toDesk \in [Conns -> Seq(Nat)]
    /\ stage \in [Conns -> Stages] /\ verdict \in [Conns -> {"none", "yes", "no"}]
    /\ silent \in [Conns -> 0 .. MaxMissedPings] /\ session \in Sessions
Accepted ==
    file # None /\ file \in HasPassword => verdict[file] = "yes" /\ stage[file] \in {"on", "vanished", "hungup"}
Handshake ==
    /\ Types /\ QueueInv /\ Accepted
    /\ \A c \in Conns : stage[c] = "away" => toDesk[c] = <<>> /\ verdict[c] = "none"
    /\ serving # None => Follows(serving, session, View(serving))
    /\ \A i \in DOMAIN backlog : Follows(backlog[i], Fresh, View(backlog[i]))

(* Words and pings in a stream. *)
LEMMA WordFacts ==
    ASSUME NEW n \in Nat
    PROVE  /\ Word(n) \in Seq(Nat) /\ Len(Word(n)) = 2 /\ Word(n)[1] + 65536 * Word(n)[2] = n
           /\ Word(n)[1] \in Nat /\ Word(n)[2] \in Nat
<1>1. n % 65536 \in Nat /\ n \div 65536 \in Nat /\ (n % 65536) + 65536 * (n \div 65536) = n
  OBVIOUS
<1> DEFINE a == n % 65536
           b == n \div 65536
<1>2. <<a, b>> \in Seq(Nat) /\ Len(<<a, b>>) = 2 /\ <<a, b>>[1] = a /\ <<a, b>>[2] = b
  <2> HIDE DEF a, b
  <2>1. a \in Nat /\ b \in Nat
    BY <1>1 DEF a, b
  <2> QED BY <2>1
<1> QED BY <1>1, <1>2 DEF Word

LEMMA ReadWord ==
    ASSUME NEW n \in Nat, NEW r \in Seq(Nat)
    PROVE  /\ Word(n) \o r \in Seq(Nat) /\ Len(Word(n) \o r) = Len(r) + 2 /\ Header(Word(n) \o r) = n
           /\ SubSeq(Word(n) \o r, 3, Len(Word(n) \o r)) = r
<1> DEFINE w == Word(n)
           s == w \o r
<1>1. w \in Seq(Nat) /\ Len(w) = 2
  <2>1. Word(n) \in Seq(Nat)
    BY WordFacts
  <2>2. Len(Word(n)) = 2
    BY WordFacts
  <2> QED BY <2>1, <2>2
<1>8. w[1] + 65536 * w[2] = n
  <2> QED BY WordFacts
<1> HIDE DEF w
<1>2. s \in Seq(Nat) /\ Len(s) = Len(r) + 2 /\ (\A i \in 1 .. Len(r) + 2 : s[i] = IF i <= 2 THEN w[i] ELSE r[i - 2])
  <2>1. Len(w) + Len(r) = Len(r) + 2
    BY <1>1, LenProperties
  <2>2. /\ w \o r \in Seq(Nat) /\ Len(w \o r) = Len(w) + Len(r)
        /\ \A i \in 1 .. Len(w) + Len(r) : (w \o r)[i] = IF i <= Len(w) THEN w[i] ELSE r[i - Len(w)]
    BY <1>1, ConcatProperties, Zenon
  <2> QED BY <1>1, <2>1, <2>2
<1> HIDE DEF s
<1>3. Len(r) \in Nat /\ r = [i \in 1 .. Len(r) |-> r[i]]
  BY LenProperties
<1>4. s[1] = w[1] /\ s[2] = w[2]
  <2>1. 1 \in 1 .. Len(r) + 2 /\ 2 \in 1 .. Len(r) + 2
    BY <1>3
  <2> QED BY <1>2, <2>1
<1>5. /\ SubSeq(s, 3, Len(s)) \in Seq(Nat) /\ Len(SubSeq(s, 3, Len(s))) = Len(r)
      /\ \A i \in 1 .. Len(r) : SubSeq(s, 3, Len(s))[i] = r[i]
  <2>1. \A i \in 3 .. Len(s) : s[i] \in Nat
    BY <1>2, <1>3, ElementOfSeq
  <2>2. Len(s) \in Int /\ 3 \in Int
    BY <1>2, <1>3
  <2> DEFINE k == Len(s)
  <2>3. /\ SubSeq(s, 3, k) \in Seq(Nat) /\ Len(SubSeq(s, 3, k)) = (IF 3 <= k THEN k - 3 + 1 ELSE 0)
        /\ \A i \in 1 .. k - 3 + 1 : SubSeq(s, 3, k)[i] = s[3 + i - 1]
    <3> HIDE DEF k
    <3>1. k \in Int /\ 3 \in Int /\ \A i \in 3 .. k : s[i] \in Nat
      BY <2>1, <2>2 DEF k
    <3> QED BY <3>1, SubSeqProperties
  <2>4. k - 3 + 1 = Len(r) /\ (~(3 <= k) => Len(r) = 0)
    BY <1>2, <1>3
  <2>5. SubSeq(s, 3, k) \in Seq(Nat) /\ Len(SubSeq(s, 3, k)) = Len(r) /\ \A i \in 1 .. Len(r) : SubSeq(s, 3, k)[i] = s[3 + i - 1]
    <3> HIDE DEF k
    <3> QED BY <2>3, <2>4
  <2>6. \A i \in 1 .. Len(r) : 3 + i - 1 \in 1 .. Len(r) + 2 /\ ~(3 + i - 1 <= 2) /\ 3 + i - 1 - 2 = i
    BY <1>3
  <2>7. ASSUME NEW i \in 1 .. Len(r) PROVE s[3 + i - 1] = r[i]
    <3> DEFINE j == 3 + i - 1
    <3>1. j \in 1 .. Len(r) + 2 /\ ~(j <= 2) /\ j - 2 = i
      BY <2>6
    <3> HIDE DEF j
    <3>2. s[j] = r[j - 2]
      BY <1>2, <3>1
    <3> QED BY <3>1, <3>2 DEF j
  <2> QED BY <2>5, <2>7
<1>6. SubSeq(s, 3, Len(s)) = r
  BY <1>3, <1>5, SeqEqual
<1>7. Header(s) = n
  BY <1>8, <1>4 DEF Header
<1> QED BY <1>2, <1>6, <1>7 DEF s, w

LEMMA ReadUnit ==
    ASSUME NEW u \in Nat, NEW r \in Seq(Nat)
    PROVE  /\ <<u>> \o r \in Seq(Nat) /\ Len(<<u>> \o r) = Len(r) + 1 /\ (<<u>> \o r)[1] = u
           /\ SubSeq(<<u>> \o r, 2, Len(<<u>> \o r)) = r
<1> DEFINE s == <<u>> \o r
<1>1. <<u>> \in Seq(Nat) /\ Len(<<u>>) = 1 /\ <<u>>[1] = u
  OBVIOUS
<1>2. Len(r) \in Nat /\ r = [i \in 1 .. Len(r) |-> r[i]]
  BY LenProperties
<1>3. s \in Seq(Nat) /\ Len(s) = Len(r) + 1 /\ (\A i \in 1 .. Len(r) + 1 : s[i] = IF i <= 1 THEN u ELSE r[i - 1])
  BY <1>1, <1>2, ConcatProperties
<1>4. s # <<>> /\ s[1] = u
  BY <1>2, <1>3
<1>5. Tail(s) = SubSeq(s, 2, Len(s))
  BY <1>3, <1>4, TailIsSubSeq
<1>6. Tail(s) \in Seq(Nat) /\ Len(Tail(s)) = Len(r) /\ \A i \in 1 .. Len(r) : Tail(s)[i] = r[i]
  <2>1. Len(Tail(s)) = Len(r)
    BY <1>2, <1>3, <1>4, HeadTailProperties
  <2>2. Tail(s) \in Seq(Nat) /\ \A i \in 1 .. Len(Tail(s)) : Tail(s)[i] = s[i + 1]
    BY <1>3, <1>4, HeadTailProperties
  <2>3. ASSUME NEW i \in 1 .. Len(r) PROVE Tail(s)[i] = r[i]
    <3>1. i + 1 \in 1 .. Len(r) + 1 /\ ~(i + 1 <= 1) /\ i + 1 - 1 = i
      BY <1>2
    <3> QED BY <1>3, <2>1, <2>2, <3>1
  <2> QED BY <2>1, <2>2, <2>3
<1>7. Tail(s) = r
  BY <1>6, SeqEqual
<1> QED BY <1>3, <1>4, <1>5, <1>7

LEMMA PingFacts ==
    /\ DCCM_PING \in Nat /\ Word(DCCM_PING) \in Seq(Nat) /\ Pings(0) = <<>>
    /\ \A n \in Nat : Pings(n) \in Seq(Nat) /\ Len(Pings(n)) = 2 * n
<1>1. DCCM_PING \in Nat
  BY DEF DCCM_PING
<1>2. Word(DCCM_PING) \in Seq(Nat) /\ Word(DCCM_PING)[1] \in Nat /\ Word(DCCM_PING)[2] \in Nat
  BY <1>1, WordFacts
<1>3. \A n \in Nat : Pings(n) \in Seq(Nat) /\ Len(Pings(n)) = 2 * n
  <2> SUFFICES ASSUME NEW n \in Nat PROVE Pings(n) \in Seq(Nat) /\ Len(Pings(n)) = 2 * n
    OBVIOUS
  <2>1. Pings(n) \in [1 .. 2 * n -> Nat] /\ 2 * n \in Nat
    BY <1>2 DEF Pings
  <2> HIDE DEF Pings
  <2> QED BY <2>1
<1>4. Pings(0) = <<>>
  <2>1. Pings(0) \in Seq(Nat) /\ Len(Pings(0)) = 0
    BY <1>3
  <2> QED BY <2>1, EmptySeq
<1> QED BY <1>1, <1>2, <1>3, <1>4

LEMMA MorePings ==
    ASSUME NEW n \in Nat
    PROVE  Pings(n + 1) = Pings(n) \o Word(DCCM_PING) /\ Pings(n + 1) = Word(DCCM_PING) \o Pings(n)
<1> DEFINE w == Word(DCCM_PING)
<1>1. w \in Seq(Nat) /\ Len(w) = 2
  BY PingFacts, WordFacts
<1>2. n + 1 \in Nat /\ Pings(n) \in Seq(Nat) /\ Len(Pings(n)) = 2 * n /\ Pings(n + 1) \in Seq(Nat) /\ Len(Pings(n + 1)) = 2 * n + 2
  <2>1. n + 1 \in Nat /\ 2 * (n + 1) = 2 * n + 2
    OBVIOUS
  <2>2. Pings(n) \in Seq(Nat) /\ Len(Pings(n)) = 2 * n /\ Pings(n + 1) \in Seq(Nat) /\ Len(Pings(n + 1)) = 2 * (n + 1)
    BY <2>1, PingFacts
  <2> QED BY <2>1, <2>2
<1>3. /\ \A i \in 1 .. 2 * n : Pings(n)[i] = IF i % 2 = 1 THEN w[1] ELSE w[2]
      /\ \A i \in 1 .. 2 * n + 2 : Pings(n + 1)[i] = IF i % 2 = 1 THEN w[1] ELSE w[2]
  <2> HIDE DEF w
  <2>1. 2 * (n + 1) = 2 * n + 2
    OBVIOUS
  <2> QED BY <2>1 DEF Pings, w
<1> HIDE DEF w
<1>4. ASSUME NEW s \in Seq(Nat), Len(s) = 2 * n + 2, \A i \in 1 .. 2 * n + 2 : s[i] = IF i % 2 = 1 THEN w[1] ELSE w[2]
      PROVE  Pings(n + 1) = s
  <2>1. Len(s) = Len(Pings(n + 1)) /\ \A i \in 1 .. Len(s) : s[i] = Pings(n + 1)[i]
    BY <1>2, <1>3, <1>4
  <2> QED BY <1>2, <2>1, SeqEqual
<1>5. Pings(n + 1) = Pings(n) \o w
  <2> DEFINE s == Pings(n) \o w
  <2>1. s \in Seq(Nat) /\ Len(s) = 2 * n + 2 /\ \A i \in 1 .. 2 * n + 2 : s[i] = IF i <= 2 * n THEN Pings(n)[i] ELSE w[i - 2 * n]
    <3>1. /\ Pings(n) \o w \in Seq(Nat) /\ Len(Pings(n) \o w) = Len(Pings(n)) + Len(w)
          /\ \A i \in 1 .. Len(Pings(n)) + Len(w) : (Pings(n) \o w)[i] = IF i <= Len(Pings(n)) THEN Pings(n)[i] ELSE w[i - Len(Pings(n))]
      BY <1>1, <1>2, ConcatProperties, Zenon
    <3> QED BY <1>1, <1>2, <3>1
  <2>2. (2 * n + 1) % 2 = 1 /\ (2 * n + 2) % 2 = 0
    OBVIOUS
  <2> HIDE DEF s
  <2>3. \A i \in 1 .. 2 * n + 2 : i <= 2 * n \/ i = 2 * n + 1 \/ i = 2 * n + 2
    OBVIOUS
  <2>4. s[2 * n + 1] = w[1] /\ s[2 * n + 2] = w[2]
    BY <2>1
  <2>5. ASSUME NEW i \in 1 .. 2 * n + 2 PROVE s[i] = IF i % 2 = 1 THEN w[1] ELSE w[2]
    <3>1. CASE i <= 2 * n
      <4>1. i \in 1 .. 2 * n
        BY <3>1
      <4>2. s[i] = Pings(n)[i] /\ Pings(n)[i] = IF i % 2 = 1 THEN w[1] ELSE w[2]
        BY <1>3, <2>1, <3>1, <4>1
      <4> QED BY <4>2
    <3>2. CASE i = 2 * n + 1
      BY <2>2, <2>4, <3>2
    <3>3. CASE i = 2 * n + 2
      BY <2>2, <2>4, <3>3
    <3> QED BY <2>3, <3>1, <3>2, <3>3
  <2>6. Pings(n + 1) = s
    BY <1>4, <2>1, <2>5
  <2> QED BY <2>6 DEF s
<1>6. Pings(n + 1) = w \o Pings(n)
  <2> DEFINE s == w \o Pings(n)
  <2>1. s \in Seq(Nat) /\ Len(s) = 2 * n + 2 /\ \A i \in 1 .. 2 * n + 2 : s[i] = IF i <= 2 THEN w[i] ELSE Pings(n)[i - 2]
    <3>1. /\ w \o Pings(n) \in Seq(Nat) /\ Len(w \o Pings(n)) = Len(w) + Len(Pings(n))
          /\ \A i \in 1 .. Len(w) + Len(Pings(n)) : (w \o Pings(n))[i] = IF i <= Len(w) THEN w[i] ELSE Pings(n)[i - Len(w)]
      BY <1>1, <1>2, ConcatProperties, Zenon
    <3>2. Len(w) + Len(Pings(n)) = 2 * n + 2
      BY <1>1, <1>2
    <3> QED BY <1>1, <1>2, <3>1, <3>2
  <2> HIDE DEF s
  <2>2. ASSUME NEW i \in 1 .. 2 * n + 2 PROVE s[i] = IF i % 2 = 1 THEN w[1] ELSE w[2]
    <3>1. CASE i <= 2
      <4>1. (i = 1 /\ i % 2 = 1) \/ (i = 2 /\ i % 2 = 0)
        BY <3>1
      <4> QED BY <2>1, <3>1, <4>1
    <3>2. CASE i > 2
      <4>1. i - 2 \in 1 .. 2 * n /\ ((i - 2) % 2 = 1 <=> i % 2 = 1) /\ ~(i <= 2)
        BY <3>2
      <4> QED BY <1>3, <2>1, <4>1
    <3> QED BY <3>1, <3>2
  <2>3. Pings(n + 1) = s
    BY <1>4, <2>1, <2>2
  <2> QED BY <2>3 DEF s
<1> QED BY <1>5, <1>6 DEF w

(* What is still to be heard. *)
LEMMA WaitingFinite ==
    ASSUME NEW q \in Seq(Wire)
    PROVE  IsFiniteSet(Waiting(q)) /\ Cardinality(Waiting(q)) \in Nat
<1>1. DOMAIN q = 1 .. Len(q) /\ Len(q) \in Nat
  BY LenProperties
<1>2. IsFiniteSet(1 .. Len(q)) /\ Waiting(q) \in SUBSET (1 .. Len(q))
  BY <1>1, FS_Interval DEF Waiting
<1> QED BY <1>2, FS_Subset, FS_CardinalityType

LEMMA WaitingAppend ==
    ASSUME NEW q \in Seq(Wire), NEW w \in Wire
    PROVE  Cardinality(Waiting(Append(q, w))) = Cardinality(Waiting(q)) + (IF w = "ping" THEN 1 ELSE 0)
<1>1. DOMAIN q = 1 .. Len(q) /\ Len(q) \in Nat
  BY LenProperties
<1>2. /\ Append(q, w) \in Seq(Wire) /\ Len(Append(q, w)) = Len(q) + 1
      /\ \A i \in 1 .. Len(q) : Append(q, w)[i] = q[i]
      /\ Append(q, w)[Len(q) + 1] = w
  BY AppendProperties
<1>3. DOMAIN Append(q, w) = 1 .. Len(q) + 1
  BY <1>2, LenProperties
<1>4. CASE w = "ping"
  <2>1. Waiting(Append(q, w)) = Waiting(q) \cup {Len(q) + 1} /\ Len(q) + 1 \notin Waiting(q)
    BY <1>1, <1>2, <1>3, <1>4 DEF Waiting
  <2> QED BY <1>4, <2>1, WaitingFinite, FS_AddElement
<1>5. CASE w # "ping"
  <2>1. Waiting(Append(q, w)) = Waiting(q)
    BY <1>1, <1>2, <1>3, <1>5 DEF Waiting
  <2> QED BY <1>5, <2>1, WaitingFinite
<1> QED BY <1>4, <1>5

LEMMA WaitingTail ==
    ASSUME NEW q \in Seq(Wire), q # <<>>
    PROVE  Cardinality(Waiting(Tail(q))) = Cardinality(Waiting(q)) - (IF Head(q) = "ping" THEN 1 ELSE 0)
<1>1. DOMAIN q = 1 .. Len(q) /\ Len(q) \in Nat /\ Len(q) >= 1
  BY LenProperties, EmptySeq
<1>2. /\ Tail(q) \in Seq(Wire) /\ Len(Tail(q)) = Len(q) - 1
      /\ \A i \in 1 .. Len(q) - 1 : Tail(q)[i] = q[i + 1]
  BY HeadTailProperties
<1>3. DOMAIN Tail(q) = 1 .. Len(q) - 1
  BY <1>2, LenProperties
<1>4. Head(q) = q[1]
  BY <1>1
<1> DEFINE T == Waiting(Tail(q))
           S == Waiting(q) \ {1}
           f == [i \in T |-> i + 1]
<1>5. T \subseteq 1 .. Len(q) - 1 /\ S \subseteq 2 .. Len(q) /\ \A i \in 1 .. Len(q) - 1 : i \in T <=> i + 1 \in S
  <2>1. T \subseteq 1 .. Len(q) - 1
    BY <1>3 DEF Waiting
  <2>2. S \subseteq 2 .. Len(q)
    BY <1>1 DEF Waiting
  <2>3. ASSUME NEW i \in 1 .. Len(q) - 1 PROVE i \in T <=> i + 1 \in S
    BY <1>1, <1>2, <1>3 DEF Waiting
  <2> QED BY <2>1, <2>2, <2>3
<1>6. ExistsBijection(T, S)
  <2> HIDE DEF T, S
  <2>1. f \in [T -> S]
    BY <1>1, <1>5
  <2>2. \A a, b \in T : f[a] = f[b] => a = b
    BY <1>1, <1>5
  <2>3. \A t \in S : \E i \in T : f[i] = t
    <3> SUFFICES ASSUME NEW t \in S PROVE \E i \in T : f[i] = t
      OBVIOUS
    <3>1. t - 1 \in 1 .. Len(q) - 1 /\ (t - 1) + 1 = t
      BY <1>1, <1>5
    <3>2. t - 1 \in T
      BY <1>5, <3>1
    <3> QED BY <3>1, <3>2
  <2>4. f \in Bijection(T, S)
    <3> HIDE DEF f
    <3>1. f \in Injection(T, S)
      BY <2>1, <2>2 DEF Injection, IsInjective
    <3>2. f \in Surjection(T, S)
      BY <2>1, <2>3 DEF Surjection
    <3> QED BY <3>1, <3>2 DEF Bijection
  <2> QED BY <2>4 DEF ExistsBijection
<1>7. IsFiniteSet(T) /\ Cardinality(T) \in Nat /\ IsFiniteSet(Waiting(q)) /\ Cardinality(Waiting(q)) \in Nat
  BY <1>2, WaitingFinite
<1>8. Cardinality(S) = Cardinality(T)
  BY <1>6, <1>7, FS_Bijection
<1>9. Cardinality(S) = IF 1 \in Waiting(q) THEN Cardinality(Waiting(q)) - 1 ELSE Cardinality(Waiting(q))
  BY <1>7, FS_RemoveElement
<1>10. 1 \in Waiting(q) <=> Head(q) = "ping"
  BY <1>1, <1>4 DEF Waiting
<1> QED BY <1>7, <1>8, <1>9, <1>10

LEMMA Associative ==
    ASSUME NEW q \in Seq(Nat), NEW r \in Seq(Nat), NEW t \in Seq(Nat)
    PROVE  (q \o r) \o t = q \o (r \o t)
OBVIOUS

LEMMA Streams ==
    /\ Info \in Nat /\ Runt \in Nat /\ Challenge \in Nat
    /\ Announcements \subseteq Seq(Nat) /\ Word(Info) \in Announcements /\ <<>> \in Seq(Nat)
    /\ \A v : Said(v) \in Seq(Nat)
    /\ \A c, s : Openings(c, s) \subseteq Seq(Nat)
    /\ \A s, d : \A n \in Nat : Rest(s, d, n) \in Seq(Nat)
<1>1. Info \in Nat /\ Runt \in Nat /\ Challenge \in Nat /\ 0 \in Nat
  BY WordsAssumption
<1>2. Word(Info) \in Seq(Nat) /\ Word(Runt) \in Seq(Nat) /\ Word(Challenge) \in Seq(Nat) /\ Word(0) \in Seq(Nat)
  BY <1>1, WordFacts
<1>3. Word(0) \o Word(Info) \in Seq(Nat)
  BY <1>2, ConcatProperties
<1>4. Announcements \subseteq Seq(Nat) /\ Word(Info) \in Announcements
  BY <1>2, <1>3 DEF Announcements
<1>5. <<>> \in Seq(Nat) /\ <<0>> \in Seq(Nat) /\ <<1>> \in Seq(Nat)
  OBVIOUS
<1>6. \A v : Said(v) \in Seq(Nat)
  BY <1>5 DEF Said
<1>7. ASSUME NEW c, NEW s, NEW x \in Openings(c, s) PROVE x \in Seq(Nat)
  <2>1. CASE x \in {Word(Challenge) \o y : y \in Announcements}
    <3>1. PICK y \in Announcements : x = Word(Challenge) \o y
      BY <2>1
    <3> QED BY <1>2, <1>4, <3>1, ConcatProperties
  <2>2. CASE x \in Announcements \/ x = <<>>
    BY <1>4, <1>5, <2>2
  <2> QED BY <1>7, <2>1, <2>2 DEF Openings
<1>8. ASSUME NEW s, NEW d, NEW n \in Nat PROVE Rest(s, d, n) \in Seq(Nat)
  <2>1. Pings(n) \in Seq(Nat)
    BY PingFacts
  <2>2. (IF s.authenticated THEN <<>> ELSE Said(d.verdict)) \in Seq(Nat)
    BY <1>5, <1>6
  <2> QED BY <2>1, <2>2, ConcatProperties DEF Rest
<1> QED BY <1>1, <1>4, <1>5, <1>6, <1>7, <1>8

(* What the device does. *)
LEMMA AnnouncesFollows ==
    ASSUME NEW c, NEW s \in Sessions, NEW d, NEW e, Follows(c, s, d), d.stage = "hello",
           e.stage = (IF c \in HasPassword THEN "asked" ELSE "on"),
           e.verdict = d.verdict, e.silent = d.silent, e.pings = d.pings,
           NEW w \in Announcements, e.unread = d.unread \o w
    PROVE  Follows(c, s, e)
<1>1. /\ InOrder(c, s) /\ Counted(s, d) /\ d.verdict = "none" /\ ~s.info
      /\ d.unread = IF Challenged(c, s) THEN <<>> ELSE Word(Challenge)
  BY DEF Follows, Unannounced, Announced
<1>2. Spoken(c, e) /\ Counted(s, e) /\ ~s.authenticated
  BY <1>1 DEF Spoken, Counted, InOrder
<1>3. w \in Seq(Nat) /\ <<>> \in Seq(Nat)
  BY Streams
<1>4. \E x \in Openings(c, s) : x \in Seq(Nat) /\ e.unread = x
  <2>1. CASE Challenged(c, s)
    <3>1. e.unread = w
      BY <1>1, <1>3, <2>1, ConcatEmptySeq
    <3> QED BY <1>1, <1>3, <2>1, <3>1 DEF Openings
  <2>2. CASE ~Challenged(c, s)
    <3>1. e.unread = Word(Challenge) \o w
      BY <1>1, <2>2
    <3>2. e.unread \in Openings(c, s)
      BY <1>1, <2>2, <3>1 DEF Openings
    <3> QED BY <3>2, Streams
  <2> QED BY <2>1, <2>2
<1>5. Rest(s, e, 0) = <<>>
  <2>1. <<>> \o <<>> = <<>>
    BY <1>3, ConcatEmptySeq
  <2> QED BY <1>1, <1>2, <2>1, PingFacts DEF Rest, Said
<1>6. \E x \in Openings(c, s) : e.unread = x \o Rest(s, e, 0)
  BY <1>4, <1>5, ConcatEmptySeq
<1>7. Announced(c, s, e, 0)
  BY <1>2, <1>6 DEF Announced
<1> QED BY <1>1, <1>2, <1>7 DEF Follows

LEMMA RepliesFollows ==
    ASSUME NEW c, NEW s \in Sessions, NEW d, NEW e, Follows(c, s, d), d.stage = "asked", e.stage = "on",
           NEW v \in {"yes", "no"}, e.verdict = v, e.silent = d.silent, e.pings = d.pings,
           e.unread = d.unread \o Said(v)
    PROVE  Follows(c, s, e)
<1>1. InOrder(c, s) /\ c \in HasPassword /\ d.verdict = "none"
  BY DEF Follows, Spoken
<1>2. PICK n \in Nat : Announced(c, s, d, n) /\ (n = 0 => Counted(s, d))
  BY DEF Follows, Unannounced
<1>3. n = 0 /\ ~s.authenticated
  BY <1>1, <1>2 DEF Announced
<1>4. PICK x \in Openings(c, s) : d.unread = x \o Rest(s, d, 0)
  BY <1>2, <1>3 DEF Announced
<1>5. x \in Seq(Nat) /\ Said(v) \in Seq(Nat) /\ <<>> \in Seq(Nat)
  BY Streams
<1>6. Rest(s, d, 0) = <<>> /\ Rest(s, e, 0) = Said(v)
  <2>1. <<>> \o <<>> = <<>> /\ Said(v) \o <<>> = Said(v)
    BY <1>5, ConcatEmptySeq
  <2>2. Rest(s, d, 0) = <<>> \o <<>>
    BY <1>1, <1>3, PingFacts DEF Rest, Said
  <2>3. Rest(s, e, 0) = Said(v) \o <<>>
    BY <1>3, PingFacts DEF Rest
  <2> QED BY <2>1, <2>2, <2>3
<1>7. e.unread = x \o Rest(s, e, 0)
  BY <1>4, <1>5, <1>6, ConcatEmptySeq
<1>8. Announced(c, s, e, 0) /\ Counted(s, e) /\ Spoken(c, e)
  BY <1>1, <1>2, <1>3, <1>7 DEF Announced, Counted, Spoken
<1> QED BY <1>1, <1>8 DEF Follows

(* An answer to a ping comes after all else. *)
LEMMA AnswersFollows ==
    ASSUME NEW c, NEW s \in Sessions, NEW d, NEW e, Follows(c, s, d), d.stage = "on", e.stage = "on",
           e.verdict = d.verdict, e.unread = d.unread \o Word(DCCM_PING)
    PROVE  Follows(c, s, e)
<1>1. PICK n \in Nat : Announced(c, s, d, n)
  BY DEF Follows, Unannounced
<1>2. PICK x \in Openings(c, s) : d.unread = x \o Rest(s, d, n)
  BY <1>1 DEF Announced
<1> DEFINE A == IF s.authenticated THEN <<>> ELSE Said(d.verdict)
<1>3. x \in Seq(Nat) /\ A \in Seq(Nat) /\ Pings(n) \in Seq(Nat) /\ Word(DCCM_PING) \in Seq(Nat) /\ Rest(s, d, n) \in Seq(Nat)
  BY Streams, PingFacts
<1>4. Rest(s, d, n) = A \o Pings(n) /\ Rest(s, e, n + 1) = A \o Pings(n + 1)
  BY DEF Rest
<1> HIDE DEF A
<1>5. Rest(s, e, n + 1) = Rest(s, d, n) \o Word(DCCM_PING)
  <2>1. (A \o Pings(n)) \o Word(DCCM_PING) = A \o (Pings(n) \o Word(DCCM_PING))
    BY <1>3, Associative
  <2>2. Pings(n + 1) = Pings(n) \o Word(DCCM_PING)
    BY MorePings
  <2> QED BY <1>4, <2>1, <2>2
<1>6. e.unread = x \o Rest(s, e, n + 1)
  <2>1. (x \o Rest(s, d, n)) \o Word(DCCM_PING) = x \o (Rest(s, d, n) \o Word(DCCM_PING))
    BY <1>3, Associative
  <2> QED BY <1>2, <1>5, <2>1
<1>7. n + 1 \in Nat /\ n + 1 # 0 /\ InOrder(c, s) /\ Spoken(c, e) /\ (c \in HasPassword => e.verdict # "none")
  BY DEF Follows, Spoken
<1>8. Announced(c, s, e, n + 1)
  BY <1>1, <1>6, <1>7 DEF Announced
<1> QED BY <1>7, <1>8 DEF Follows

(* The same has been said, and the device is on or has left. *)
LEMMA StaysFollows ==
    ASSUME NEW c, NEW s \in Sessions, NEW t \in Sessions, NEW d, NEW e, Follows(c, s, d),
           \/ e.stage = d.stage
           \/ d.stage \in {"hello", "asked", "on"} /\ e.stage \in {"vanished", "hungup"},
           t.info = s.info, t.locked = s.locked, t.awaiting_password_reply = s.awaiting_password_reply,
           t.authenticated = s.authenticated,
           e.verdict = d.verdict, e.unread = d.unread,
           Counted(s, d) => Counted(t, e)
    PROVE  Follows(c, t, e)
<1>1. InOrder(c, t) /\ Spoken(c, e)
  BY DEF Follows, InOrder, Spoken
<1>2. CASE Unannounced(c, s, d) /\ Counted(s, d)
  BY <1>1, <1>2 DEF Follows, Unannounced, Challenged
<1>3. ASSUME NEW n \in Nat, Announced(c, s, d, n), n = 0 => Counted(s, d) PROVE Follows(c, t, e)
  <2>1. Rest(t, e, n) = Rest(s, d, n) /\ Openings(c, t) = Openings(c, s)
    BY DEF Rest, Openings, Challenged
  <2>2. Announced(c, t, e, n)
    BY <1>3, <2>1 DEF Announced
  <2> QED BY <1>1, <1>3, <2>2 DEF Follows
<1> QED BY <1>2, <1>3 DEF Follows

(* What the listener reads next.                                           *)
LEMMA ReadsChallenge ==
    ASSUME NEW c, NEW s \in Sessions, NEW t \in Sessions, NEW d, NEW e, Follows(c, s, d),
           ~Challenged(c, s), Len(d.unread) >= 2,
           t.locked, t.info = s.info, t.awaiting_password_reply = s.awaiting_password_reply,
           t.authenticated = s.authenticated, t.missed_pings = s.missed_pings,
           e.stage = d.stage, e.verdict = d.verdict, e.unread = SubSeq(d.unread, 3, Len(d.unread)),
           Counted(s, d) => Counted(t, e)
    PROVE  Header(d.unread) = Challenge /\ Follows(c, t, e)
<1>1. c \in HasPassword /\ ~s.locked /\ ~s.info /\ ~s.authenticated
  BY DEF Challenged, Follows, InOrder
<1>2. InOrder(c, t) /\ Spoken(c, e) /\ Challenged(c, t)
  BY <1>1 DEF Follows, InOrder, Spoken, Challenged
<1>3. Challenge \in Nat /\ <<>> \in Seq(Nat) /\ Word(Challenge) \in Seq(Nat)
  BY Streams, WordFacts
<1>4. CASE Unannounced(c, s, d) /\ Counted(s, d)
  <2>1. d.unread = Word(Challenge) \o <<>>
    BY <1>3, <1>4, ConcatEmptySeq DEF Unannounced
  <2>2. Header(d.unread) = Challenge /\ e.unread = <<>>
    BY <1>3, <2>1, ReadWord
  <2>3. Unannounced(c, t, e)
    BY <1>2, <1>4, <2>2 DEF Unannounced
  <2> QED BY <1>2, <1>4, <2>2, <2>3 DEF Follows
<1>5. ASSUME NEW n \in Nat, Announced(c, s, d, n), n = 0 => Counted(s, d)
      PROVE  Header(d.unread) = Challenge /\ Follows(c, t, e)
  <2>1. PICK x \in Announcements : d.unread = (Word(Challenge) \o x) \o Rest(s, d, n)
    BY <1>1, <1>5 DEF Announced, Openings
  <2>2. x \in Seq(Nat) /\ Rest(s, d, n) \in Seq(Nat)
    BY Streams
  <2>3. x \o Rest(s, d, n) \in Seq(Nat)
    BY <2>2, ConcatProperties
  <2>4. d.unread = Word(Challenge) \o (x \o Rest(s, d, n))
    BY <1>3, <2>1, <2>2, Associative
  <2>5. Header(d.unread) = Challenge /\ e.unread = x \o Rest(s, d, n)
    BY <1>3, <2>3, <2>4, ReadWord
  <2>6. Rest(t, e, n) = Rest(s, d, n) /\ x \in Openings(c, t)
    BY <1>1, <1>2 DEF Rest, Openings
  <2>7. Announced(c, t, e, n)
    BY <1>1, <1>5, <2>5, <2>6 DEF Announced
  <2> QED BY <1>2, <1>5, <2>5, <2>7 DEF Follows
<1> QED BY <1>4, <1>5 DEF Follows

(* Before the info packet: the packet, an empty word, or a runt.           *)
LEMMA ReadsAnnouncement ==
    ASSUME NEW c, NEW s \in Sessions, NEW d, Follows(c, s, d), Challenged(c, s), ~s.info, Len(d.unread) >= 2
    PROVE  \/ /\ Header(d.unread) = Info
              /\ \A t \in Sessions : \A e :
                   /\ t.info /\ t.locked = s.locked /\ t.missed_pings = s.missed_pings
                   /\ t.awaiting_password_reply = s.locked /\ t.authenticated = ~s.locked
                   /\ e.stage = d.stage /\ e.verdict = d.verdict /\ e.unread = SubSeq(d.unread, 3, Len(d.unread))
                   /\ Counted(s, d) => Counted(t, e)
                   => Follows(c, t, e)
           \/ /\ Header(d.unread) = 0
              /\ \A e : /\ e.stage = d.stage /\ e.verdict = d.verdict /\ e.unread = SubSeq(d.unread, 3, Len(d.unread))
                        /\ Counted(s, d) => Counted(s, e)
                        => Follows(c, s, e)
           \/ Header(d.unread) = Runt
<1>1. InOrder(c, s) /\ Spoken(c, d) /\ ~s.authenticated /\ ~s.awaiting_password_reply
  BY DEF Follows, InOrder
<1>2. PICK n \in Nat : Announced(c, s, d, n) /\ (n = 0 => Counted(s, d))
  <2>1. ~Unannounced(c, s, d)
    <3>1. Len(<<>>) = 0
      OBVIOUS
    <3> QED BY <3>1 DEF Unannounced
  <2> QED BY <2>1 DEF Follows
<1> DEFINE r == Rest(s, d, n)
           after == SubSeq(d.unread, 3, Len(d.unread))
<1>3. PICK x \in Announcements : d.unread = x \o r
  BY <1>1, <1>2 DEF Announced, Openings
<1>4. r \in Seq(Nat) /\ x \in Seq(Nat) /\ Info \in Nat /\ Runt \in Nat /\ 0 \in Nat /\ <<>> \in Seq(Nat)
  BY Streams
<1>5. Word(Info) \in Seq(Nat) /\ Word(0) \in Seq(Nat) /\ Word(Info) \in Announcements
  BY <1>4, WordFacts DEF Announcements
<1>6. CASE x = Word(Info)
  <2>1. Header(d.unread) = Info /\ after = r
    BY <1>3, <1>4, <1>6, ReadWord
  <2>2. ASSUME NEW t \in Sessions, NEW e,
               t.info /\ t.locked = s.locked /\ t.missed_pings = s.missed_pings,
               t.awaiting_password_reply = s.locked /\ t.authenticated = ~s.locked,
               e.stage = d.stage /\ e.verdict = d.verdict /\ e.unread = after,
               Counted(s, d) => Counted(t, e)
        PROVE  Follows(c, t, e)
    <3>1. InOrder(c, t) /\ Spoken(c, e)
      BY <1>1, <2>2 DEF InOrder, Spoken, Challenged
    <3>2. Rest(t, e, n) = r
      <4>1. CASE s.locked
        BY <1>1, <2>2, <4>1 DEF Rest
      <4>2. CASE ~s.locked
        <5>1. d.verdict = "none"
          BY <1>1, <4>2 DEF Spoken, Challenged
        <5> QED BY <1>1, <2>2, <4>2, <5>1 DEF Rest, Said
      <4> QED BY <4>1, <4>2
    <3>3. e.unread = <<>> \o Rest(t, e, n) /\ <<>> \in Openings(c, t)
      BY <1>4, <2>1, <2>2, <3>2, ConcatEmptySeq DEF Openings
    <3>4. c \in HasPassword => ~t.authenticated
      BY <2>2 DEF Challenged
    <3>5. Announced(c, t, e, n)
      BY <1>2, <2>2, <3>3, <3>4 DEF Announced
    <3> QED BY <1>2, <2>2, <3>1, <3>5 DEF Follows
  <2> HIDE DEF after
  <2>3. \A t \in Sessions : \A e :
           /\ t.info /\ t.locked = s.locked /\ t.missed_pings = s.missed_pings
           /\ t.awaiting_password_reply = s.locked /\ t.authenticated = ~s.locked
           /\ e.stage = d.stage /\ e.verdict = d.verdict /\ e.unread = after
           /\ Counted(s, d) => Counted(t, e)
           => Follows(c, t, e)
    BY <2>2, Zenon
  <2> QED BY <2>1, <2>3 DEF after
<1>7. CASE x = Word(0) \o Word(Info)
  <2>1. d.unread = Word(0) \o (Word(Info) \o r) /\ Word(Info) \o r \in Seq(Nat)
    <3> HIDE DEF r
    <3>1. Word(Info) \o r \in Seq(Nat)
      BY <1>4, <1>5, ConcatProperties
    <3>2. (Word(0) \o Word(Info)) \o r = Word(0) \o (Word(Info) \o r)
      BY <1>4, <1>5, Associative
    <3> QED BY <1>3, <1>7, <3>1, <3>2
  <2>2. Header(d.unread) = 0 /\ after = Word(Info) \o r
    BY <1>4, <2>1, ReadWord
  <2>3. ASSUME NEW e, e.stage = d.stage /\ e.verdict = d.verdict /\ e.unread = after,
               Counted(s, d) => Counted(s, e)
        PROVE  Follows(c, s, e)
    <3>1. Spoken(c, e) /\ Rest(s, e, n) = r
      BY <1>1, <2>3 DEF Spoken, Rest
    <3>2. Word(Info) \in Openings(c, s)
      BY <1>5 DEF Openings
    <3>3. Announced(c, s, e, n)
      BY <1>2, <2>2, <2>3, <3>1, <3>2 DEF Announced
    <3> QED BY <1>1, <1>2, <2>3, <3>1, <3>3 DEF Follows
  <2> HIDE DEF after
  <2>4. \A e : /\ e.stage = d.stage /\ e.verdict = d.verdict /\ e.unread = after
               /\ Counted(s, d) => Counted(s, e)
               => Follows(c, s, e)
    BY <2>3, Zenon
  <2> QED BY <2>2, <2>4 DEF after
<1>8. CASE x = Word(Runt)
  BY <1>3, <1>4, <1>8, ReadWord
<1> QED BY <1>6, <1>7, <1>8 DEF Announcements

(* Once it is authenticated the session reads answers to pings.            *)
LEMMA ReadsAnswer ==
    ASSUME NEW c, NEW s \in Sessions, NEW t \in Sessions, NEW d, NEW e, Follows(c, s, d), IsView(e),
           s.authenticated, Len(d.unread) >= 2,
           t.locked = s.locked, t.info = s.info, t.awaiting_password_reply = s.awaiting_password_reply,
           t.authenticated = s.authenticated, t.missed_pings = 0,
           e.stage = d.stage, e.verdict = d.verdict, e.unread = SubSeq(d.unread, 3, Len(d.unread))
    PROVE  Header(d.unread) = DCCM_PING /\ Follows(c, t, e)
<1>1. s.info /\ InOrder(c, t) /\ Spoken(c, e)
  BY DEF Follows, InOrder, Spoken
<1>2. PICK n \in Nat : Announced(c, s, d, n)
  BY <1>1 DEF Follows, Unannounced
<1>3. <<>> \in Seq(Nat) /\ \A k \in Nat : Pings(k) \in Seq(Nat) /\ Len(Pings(k)) = 2 * k
  BY Streams, PingFacts
<1>4. \A k \in Nat : Rest(s, d, k) = Pings(k) /\ Rest(t, e, k) = Pings(k)
  BY <1>3, ConcatEmptySeq DEF Rest
<1>5. d.unread = Pings(n)
  <2>1. d.unread = <<>> \o Pings(n)
    BY <1>1, <1>2, <1>4 DEF Announced, Openings
  <2> QED BY <1>3, <2>1, ConcatEmptySeq
<1>6. n - 1 \in Nat /\ n = n - 1 + 1
  BY <1>3, <1>5
<1>7. d.unread = Word(DCCM_PING) \o Pings(n - 1)
  BY <1>5, <1>6, MorePings
<1>8. Header(d.unread) = DCCM_PING /\ e.unread = Pings(n - 1)
  <2>1. DCCM_PING \in Nat /\ Pings(n - 1) \in Seq(Nat)
    BY <1>3, <1>6, PingFacts
  <2>2. Header(Word(DCCM_PING) \o Pings(n - 1)) = DCCM_PING
    BY <2>1, ReadWord
  <2>3. SubSeq(Word(DCCM_PING) \o Pings(n - 1), 3, Len(Word(DCCM_PING) \o Pings(n - 1))) = Pings(n - 1)
    BY <2>1, ReadWord
  <2> QED BY <1>7, <2>2, <2>3
<1>9. e.unread = <<>> \o Rest(t, e, n - 1) /\ <<>> \in Openings(c, t)
  BY <1>1, <1>3, <1>4, <1>6, <1>8, ConcatEmptySeq DEF Openings
<1>10. Announced(c, t, e, n - 1)
  BY <1>2, <1>9 DEF Announced
<1>11. Counted(t, e)
  BY DEF Counted, IsView
<1> QED BY <1>1, <1>6, <1>8, <1>10, <1>11 DEF Follows

(* A session that awaits the reply reads the device's verdict.             *)
LEMMA ReadsVerdict ==
    ASSUME NEW c, NEW s \in Sessions, NEW t \in Sessions, NEW d, NEW e, Follows(c, s, d),
           s.awaiting_password_reply, Len(d.unread) >= 1, d.unread[1] # 0,
           d.verdict \in {"none", "yes", "no"},
           t.locked = s.locked, t.info = s.info, ~t.awaiting_password_reply,
           t.authenticated, t.missed_pings = s.missed_pings,
           e.stage = d.stage, e.verdict = d.verdict, e.unread = SubSeq(d.unread, 2, Len(d.unread)),
           Counted(s, d) => Counted(t, e)
    PROVE  d.verdict = "yes" /\ Follows(c, t, e)
<1>1. s.info /\ s.locked /\ ~s.authenticated /\ c \in HasPassword /\ InOrder(c, t) /\ Spoken(c, e)
  BY DEF Follows, InOrder, Spoken
<1>2. PICK n \in Nat : Announced(c, s, d, n) /\ (n = 0 => Counted(s, d))
  BY <1>1 DEF Follows, Unannounced
<1>3. <<>> \in Seq(Nat) /\ Pings(n) \in Seq(Nat) /\ Said(d.verdict) \in Seq(Nat) /\ Rest(s, d, n) \in Seq(Nat)
  BY Streams, PingFacts
<1>4. d.unread = Said(d.verdict) \o Pings(n)
  <2>1. d.unread = <<>> \o Rest(s, d, n)
    BY <1>1, <1>2 DEF Announced, Openings
  <2>2. d.unread = Rest(s, d, n)
    BY <1>3, <2>1, ConcatEmptySeq
  <2> QED BY <1>1, <2>2 DEF Rest
<1>5. d.verdict = "yes"
  <2>1. CASE d.verdict = "none"
    <3>1. n = 0
      BY <1>1, <1>2, <2>1 DEF Announced
    <3>2. d.unread = <<>> \o <<>>
      BY <1>4, <2>1, <3>1, PingFacts DEF Said
    <3>3. Len(<<>> \o <<>>) = 0
      BY <1>3, ConcatEmptySeq
    <3> QED BY <3>2, <3>3
  <2>2. CASE d.verdict = "no"
    <3>1. d.unread = <<0>> \o Pings(n)
      BY <1>4, <2>2 DEF Said
    <3> QED BY <1>3, <3>1, ReadUnit
  <2> QED BY <2>1, <2>2
<1>6. e.unread = Pings(n)
  <2>1. d.unread = <<1>> \o Pings(n)
    BY <1>4, <1>5 DEF Said
  <2> QED BY <1>3, <2>1, ReadUnit
<1>7. e.unread = <<>> \o Rest(t, e, n) /\ <<>> \in Openings(c, t)
  BY <1>1, <1>3, <1>6, ConcatEmptySeq DEF Openings, Rest
<1>8. Announced(c, t, e, n)
  BY <1>2, <1>5, <1>7 DEF Announced
<1> QED BY <1>1, <1>2, <1>5, <1>8 DEF Follows

(* Nothing to read: what the session counts as missed, the device has not answered. *)
LEMMA SilenceIsCounted ==
    ASSUME NEW c, NEW s \in Sessions, NEW d, Follows(c, s, d), d.unread = <<>>
    PROVE  Counted(s, d)
<1> SUFFICES ASSUME NEW n \in Nat, Announced(c, s, d, n), n # 0 PROVE FALSE
  BY DEF Follows
<1>1. PICK x \in Openings(c, s) : d.unread = x \o Rest(s, d, n)
  BY DEF Announced
<1>2. x \in Seq(Nat) /\ Rest(s, d, n) \in Seq(Nat) /\ Pings(n) \in Seq(Nat) /\ Len(Pings(n)) = 2 * n /\ <<>> \in Seq(Nat)
  BY Streams, PingFacts
<1>3. Rest(s, d, n) = <<>>
  BY <1>1, <1>2, ConcatEqualIffEmpty
<1> DEFINE A == IF s.authenticated THEN <<>> ELSE Said(d.verdict)
<1>4. A \in Seq(Nat) /\ A \o Pings(n) = <<>>
  BY <1>2, <1>3, Streams DEF Rest
<1> HIDE DEF A
<1>5. Pings(n) = <<>>
  BY <1>2, <1>4, ConcatEqualIffEmpty
<1>6. Len(<<>>) = 0
  OBVIOUS
<1> QED BY <1>2, <1>5, <1>6

LEMMA ViewType ==
    ASSUME NEW c \in Conns, Types
    PROVE  IsView(View(c))
<1>1. Cardinality(Waiting(toDevice[c])) \in Nat
  BY WaitingFinite DEF Types
<1> QED BY <1>1 DEF Types, IsView, View

LEMMA FreshType == Fresh \in Sessions
BY DEF Fresh, Sessions

LEMMA Present ==
    ASSUME NEW c, NEW s, NEW d, Follows(c, s, d)
    PROVE  d.stage # "away"
BY DEF Follows, Unannounced, Announced

(* What a connection whose queues and device have not changed looks like.  *)
LEMMA SameView ==
    ASSUME NEW b \in Conns, stage'[b] = stage[b], verdict'[b] = verdict[b], toDesk'[b] = toDesk[b],
           silent'[b] = silent[b], toDevice'[b] = toDevice[b]
    PROVE  View(b)' = View(b)
BY DEF View

(* A device does something.                                                *)
LEMMA DeviceMoves ==
    ASSUME Handshake, Types', UNCHANGED <<backlog, serving, session, file>>,
           NEW c \in Conns, stage[c] # "away", stage'[c] # "away",
           \A b \in Conns \ {c} : /\ stage'[b] = stage[b] /\ verdict'[b] = verdict[b] /\ toDesk'[b] = toDesk[b]
                                  /\ silent'[b] = silent[b] /\ toDevice'[b] = toDevice[b],
           \A s \in Sessions : Follows(c, s, View(c)) => Follows(c, s, View(c)'),
           verdict[c] = "yes" /\ stage[c] \in {"on", "vanished", "hungup"}
             => verdict'[c] = "yes" /\ stage'[c] \in {"on", "vanished", "hungup"}
    PROVE  Handshake'
<1>1. \A b \in Conns, s \in Sessions : Follows(b, s, View(b)) => Follows(b, s, View(b)')
  BY SameView
<1>2. QueueInv'
  <2>1. \A i \in DOMAIN backlog : backlog[i] \in Conns
    BY DEF Handshake, QueueInv
  <2> QED BY <2>1 DEF Handshake, QueueInv
<1>3. Accepted'
  BY ConnsAssumption DEF Handshake, Accepted
<1>4. \A b \in Conns : stage'[b] = "away" => toDesk'[b] = <<>> /\ verdict'[b] = "none"
  BY DEF Handshake
<1>5. ASSUME serving' # None PROVE Follows(serving', session', View(serving)')
  <2>1. PICK b \in Conns : serving = b
    BY <1>5, ConnsAssumption DEF Handshake, QueueInv
  <2>2. serving # None /\ session \in Sessions
    BY <1>5 DEF Handshake, Types
  <2>3. Follows(b, session, View(b))
    <3>1. View(serving) = View(b)
      BY <2>1
    <3> QED BY <2>1, <2>2, <3>1 DEF Handshake
  <2>4. View(serving)' = View(b)'
    BY <2>1 DEF View
  <2>5. Follows(b, session, View(b)')
    BY <1>1, <2>2, <2>3
  <2> QED BY <2>1, <2>4, <2>5
<1>6. ASSUME NEW i \in DOMAIN backlog' PROVE Follows(backlog'[i], Fresh, View(backlog[i])')
  <2>1. PICK b \in Conns : backlog[i] = b /\ i \in DOMAIN backlog
    BY <1>6 DEF Handshake, QueueInv
  <2>2. Follows(b, Fresh, View(b))
    <3>1. View(backlog[i]) = View(b)
      BY <2>1
    <3> QED BY <2>1, <3>1 DEF Handshake
  <2>3. View(backlog[i])' = View(b)'
    BY <2>1 DEF View
  <2>4. Follows(b, Fresh, View(b)')
    BY <1>1, <2>2, FreshType
  <2> QED BY <2>1, <2>3, <2>4
<1> QED BY <1>2, <1>3, <1>4, <1>5, <1>6 DEF Handshake, Fresh

(* The listener does something with the connection it serves.              *)
LEMMA ListenerMoves ==
    ASSUME Handshake, Types', UNCHANGED <<backlog, stage, verdict, silent>>,
           NEW c \in Conns, serving = c, c # None,
           \A b \in Conns \ {c} : toDesk'[b] = toDesk[b] /\ toDevice'[b] = toDevice[b],
           serving' \in {c, None}, serving' = c => Follows(c, session', View(c)'),
           \/ file' \in {file, None}
           \/ file' = c /\ (c \in HasPassword => verdict[c] = "yes")
    PROVE  Handshake'
<1>1. View(serving) = View(c) /\ Follows(c, session, View(c))
  <2>1. View(serving) = View(c)
    OBVIOUS
  <2> QED BY <2>1 DEF Handshake
<1>2. stage[c] # "away" /\ (verdict[c] = "yes" => stage[c] \in {"on", "vanished", "hungup"})
  <2>1. View(c).stage = stage[c] /\ View(c).verdict = verdict[c]
    BY DEF View
  <2>2. stage[c] \in Stages
    BY DEF Handshake, Types
  <2> QED BY <1>1, <2>1, <2>2, Present DEF Follows, Spoken, Stages
<1>3. \A b \in Conns \ {c} : View(b)' = View(b)
  BY SameView
<1>4. QueueInv'
  <2>1. serving' \in Peer \cup {None} /\ \A i \in DOMAIN backlog : backlog[i] \in Conns
    BY DEF Handshake, QueueInv
  <2> QED BY <2>1, ConnsAssumption DEF Handshake, QueueInv
<1>5. Accepted'
  BY <1>2, ConnsAssumption DEF Handshake, Accepted
<1>6. \A b \in Conns : stage'[b] = "away" => toDesk'[b] = <<>> /\ verdict'[b] = "none"
  BY <1>2 DEF Handshake
<1>7. ASSUME serving' # None PROVE Follows(serving', session', View(serving)')
  <2>1. serving' = c /\ View(serving)' = View(c)'
    BY <1>7 DEF View
  <2> QED BY <2>1
<1>8. ASSUME NEW i \in DOMAIN backlog' PROVE Follows(backlog'[i], Fresh, View(backlog[i])')
  <2>1. PICK b \in Conns \ {c} : backlog[i] = b /\ i \in DOMAIN backlog
    BY <1>8 DEF Handshake, QueueInv
  <2>2. Follows(b, Fresh, View(b))
    <3>1. View(backlog[i]) = View(b)
      BY <2>1
    <3> QED BY <2>1, <3>1 DEF Handshake
  <2>3. View(backlog[i])' = View(b)'
    BY <2>1 DEF View
  <2> QED BY <1>3, <2>1, <2>2, <2>3
<1> QED BY <1>4, <1>5, <1>6, <1>7, <1>8 DEF Handshake, Fresh

LEMMA InitHandshake == Init => Handshake
<1> SUFFICES ASSUME Init PROVE Handshake
  OBVIOUS
<1>1. Types
  BY WordsAssumption DEF Init, Types, Fresh, Sessions, Stages
<1>2. QueueInv
  BY DEF Init, QueueInv
<1>3. DOMAIN backlog = {}
  BY DEF Init
<1> QED BY <1>1, <1>2, <1>3 DEF Init, Handshake, Accepted

LEMMA SaysType ==
    ASSUME Types, NEW c \in Conns, NEW units \in Seq(Nat), Says(c, units)
    PROVE  /\ toDesk' \in [Conns -> Seq(Nat)] /\ toDesk'[c] = toDesk[c] \o units
           /\ \A b \in Conns \ {c} : toDesk'[b] = toDesk[b]
<1>1. toDesk[c] \o units \in Seq(Nat)
  BY ConcatProperties DEF Types
<1> QED BY <1>1 DEF Types, Says

LEMMA SendsType ==
    ASSUME Types, NEW c \in Conns, NEW w \in Wire, Sends(c, w)
    PROVE  /\ toDevice' \in [Conns -> Seq(Wire)] /\ toDevice'[c] = Append(toDevice[c], w)
           /\ \A b \in Conns \ {c} : toDevice'[b] = toDevice[b]
<1>1. Append(toDevice[c], w) \in Seq(Wire)
  BY AppendProperties DEF Types
<1> QED BY <1>1 DEF Types, Sends

(* The devices keep to the order.                                          *)
LEMMA DeviceKeepsOrder ==
    ASSUME Handshake, ~EchoEarly, NEW c \in Conns, Announces(c) \/ Replies(c) \/ HearsPing(c) \/ Leaves(c)
    PROVE  Handshake'
<1> DEFINE d == View(c)
           e == View(c)'
<1>1. Types /\ UNCHANGED <<backlog, serving, session, file>>
  BY DEF Handshake, Announces, Replies, HearsPing, Leaves, server
<1>2. /\ d.stage = stage[c] /\ d.verdict = verdict[c] /\ d.unread = toDesk[c] /\ d.silent = silent[c]
      /\ d.pings = Cardinality(Waiting(toDevice[c]))
      /\ e.stage = stage'[c] /\ e.verdict = verdict'[c] /\ e.unread = toDesk'[c] /\ e.silent = silent'[c]
      /\ e.pings = Cardinality(Waiting(toDevice'[c]))
  BY DEF View
<1>3. d.silent \in 0 .. MaxMissedPings /\ d.pings \in Nat /\ MaxMissedPings \in Nat
  BY <1>1, ViewType, WordsAssumption DEF IsView
<1>4. \A s \in Sessions : s.missed_pings \in Nat
  BY DEF Sessions
<1> HIDE DEF d, e
<1>5. CASE Announces(c)
  <2>1. PICK w \in Announcements : Says(c, w)
    BY <1>5 DEF Announces, Announcements
  <2>2. w \in Seq(Nat)
    BY Streams
  <2>3. /\ stage[c] = "hello" /\ stage' = [stage EXCEPT ![c] = IF c \in HasPassword THEN "asked" ELSE "on"]
        /\ UNCHANGED <<verdict, silent, toDevice>>
    BY <1>5 DEF Announces
  <2>4. /\ stage' \in [Conns -> Stages] /\ stage'[c] = (IF c \in HasPassword THEN "asked" ELSE "on")
        /\ \A b \in Conns \ {c} : stage'[b] = stage[b]
    BY <1>1, <2>3 DEF Types, Stages
  <2>5. /\ toDesk' \in [Conns -> Seq(Nat)] /\ toDesk'[c] = toDesk[c] \o w
        /\ \A b \in Conns \ {c} : toDesk'[b] = toDesk[b]
    BY <1>1, <2>1, <2>2, SaysType
  <2>6. Types'
    BY <1>1, <2>3, <2>4, <2>5 DEF Types
  <2>7. ASSUME NEW s \in Sessions, Follows(c, s, d) PROVE Follows(c, s, e)
    <3>1. /\ d.stage = "hello" /\ e.stage = (IF c \in HasPassword THEN "asked" ELSE "on")
          /\ e.verdict = d.verdict /\ e.silent = d.silent /\ e.pings = d.pings /\ e.unread = d.unread \o w
      BY <1>2, <2>3, <2>4, <2>5
    <3> QED BY <2>7, <3>1, AnnouncesFollows
  <2>8. stage'[c] # "away" /\ stage[c] # "away"
    BY <2>3, <2>4
  <2> QED BY <1>1, <2>3, <2>4, <2>5, <2>6, <2>7, <2>8, DeviceMoves DEF d, e
<1>6. CASE Replies(c)
  <2>1. PICK v \in {"yes", "no"} : verdict' = [verdict EXCEPT ![c] = v] /\ Says(c, Said(v))
    BY <1>6 DEF Replies, Said
  <2>2. Said(v) \in Seq(Nat)
    BY Streams
  <2>3. /\ stage[c] = "asked" /\ stage' = [stage EXCEPT ![c] = "on"] /\ UNCHANGED silent
        /\ toDevice[c] # <<>> /\ Head(toDevice[c]) = "password" /\ toDevice' = [toDevice EXCEPT ![c] = Tail(@)]
    BY <1>6 DEF Replies
  <2>4. /\ stage' \in [Conns -> Stages] /\ stage'[c] = "on"
        /\ \A b \in Conns \ {c} : stage'[b] = stage[b]
    BY <1>1, <2>3 DEF Types, Stages
  <2>5. /\ toDesk' \in [Conns -> Seq(Nat)] /\ toDesk'[c] = toDesk[c] \o Said(v)
        /\ \A b \in Conns \ {c} : toDesk'[b] = toDesk[b]
    BY <1>1, <2>1, <2>2, SaysType
  <2>6. /\ verdict' \in [Conns -> {"none", "yes", "no"}] /\ verdict'[c] = v
        /\ \A b \in Conns \ {c} : verdict'[b] = verdict[b]
    BY <1>1, <2>1 DEF Types
  <2>7. toDevice[c] \in Seq(Wire) /\ Tail(toDevice[c]) \in Seq(Wire)
    BY <1>1, <2>3, HeadTailProperties DEF Types
  <2>8. /\ toDevice' \in [Conns -> Seq(Wire)] /\ toDevice'[c] = Tail(toDevice[c])
        /\ \A b \in Conns \ {c} : toDevice'[b] = toDevice[b]
    BY <1>1, <2>3, <2>7 DEF Types
  <2>9. e.pings = d.pings
    BY <1>2, <1>3, <2>3, <2>7, <2>8, WaitingTail
  <2>10. Types'
    BY <1>1, <2>3, <2>4, <2>5, <2>6, <2>8 DEF Types
  <2>11. ASSUME NEW s \in Sessions, Follows(c, s, d) PROVE Follows(c, s, e)
    <3>1. /\ d.stage = "asked" /\ e.stage = "on" /\ e.verdict = v /\ e.silent = d.silent
          /\ e.unread = d.unread \o Said(v)
      BY <1>2, <2>3, <2>4, <2>5, <2>6
    <3> QED BY <2>9, <2>11, <3>1, RepliesFollows
  <2>12. stage'[c] # "away" /\ stage[c] # "away" /\ stage[c] \notin {"on", "vanished", "hungup"}
    BY <2>3, <2>4
  <2> QED BY <1>1, <2>3, <2>4, <2>5, <2>6, <2>8, <2>10, <2>11, <2>12, DeviceMoves DEF d, e
<1>7. CASE HearsPing(c)
  <2>1. PICK i \in 1 .. 1 : /\ i <= Len(toDevice[c]) /\ toDevice[c][i] = "ping"
                            /\ toDevice' = [toDevice EXCEPT ![c] = SubSeq(@, 1, i - 1) \o SubSeq(@, i + 1, Len(@))]
    BY <1>7 DEF HearsPing
  <2>2. stage[c] \in {"hello", "asked", "on"} /\ UNCHANGED <<stage, verdict>>
    BY <1>7 DEF HearsPing
  <2>3. toDevice[c] \in Seq(Wire) /\ toDevice[c] # <<>> /\ Head(toDevice[c]) = "ping"
    <3>1. toDevice[c] \in Seq(Wire) /\ 1 <= Len(toDevice[c]) /\ toDevice[c][1] = "ping"
      BY <1>1, <2>1 DEF Types
    <3> QED BY <3>1
  <2>4. toDevice' = [toDevice EXCEPT ![c] = Tail(@)]
    <3> DEFINE q == toDevice[c]
    <3>1. i = 1
      BY <2>1
    <3>2. SubSeq(q, 1, 0) \o SubSeq(q, 2, Len(q)) = Tail(q)
      <4>1. SubSeq(q, 1, 0) = <<>>
        BY SubSeqEmpty
      <4>2. Tail(q) = SubSeq(q, 2, Len(q)) /\ Tail(q) \in Seq(Wire)
        BY <2>3, TailIsSubSeq, HeadTailProperties
      <4> QED BY <4>1, <4>2, ConcatEmptySeq
    <3> HIDE DEF q
    <3>3. SubSeq(q, 1, i - 1) \o SubSeq(q, i + 1, Len(q)) = Tail(q)
      BY <3>1, <3>2
    <3> QED BY <2>1, <3>3 DEF q
  <2>5. Tail(toDevice[c]) \in Seq(Wire)
    BY <2>3, HeadTailProperties
  <2>6. /\ toDevice' \in [Conns -> Seq(Wire)] /\ toDevice'[c] = Tail(toDevice[c])
        /\ \A b \in Conns \ {c} : toDevice'[b] = toDevice[b]
    BY <1>1, <2>4, <2>5 DEF Types
  <2>7. e.pings = d.pings - 1
    BY <1>2, <1>3, <2>3, <2>6, WaitingTail
  <2>8. e.stage = d.stage /\ e.verdict = d.verdict /\ stage[c] # "away" /\ stage'[c] # "away"
    BY <1>2, <2>2
  <2>9. CASE stage[c] = "on" /\ Says(c, Word(DCCM_PING)) /\ silent' = [silent EXCEPT ![c] = 0]
    <3>1. /\ toDesk' \in [Conns -> Seq(Nat)] /\ toDesk'[c] = toDesk[c] \o Word(DCCM_PING)
          /\ \A b \in Conns \ {c} : toDesk'[b] = toDesk[b]
      BY <1>1, <2>9, SaysType, PingFacts
    <3>2. /\ silent' \in [Conns -> 0 .. MaxMissedPings] /\ silent'[c] = 0
          /\ \A b \in Conns \ {c} : silent'[b] = silent[b]
      BY <1>1, <1>3, <2>9 DEF Types
    <3>3. Types'
      BY <1>1, <2>2, <2>6, <3>1, <3>2 DEF Types
    <3>4. ASSUME NEW s \in Sessions, Follows(c, s, d) PROVE Follows(c, s, e)
      <4>1. d.stage = "on" /\ e.stage = "on" /\ e.unread = d.unread \o Word(DCCM_PING)
        BY <1>2, <2>2, <2>9, <3>1
      <4> QED BY <2>8, <3>4, <4>1, AnswersFollows
    <3> QED BY <1>1, <2>2, <2>6, <2>8, <3>1, <3>2, <3>3, <3>4, DeviceMoves DEF d, e
  <2>10. CASE silent' = [silent EXCEPT ![c] = IF @ < MaxMissedPings THEN @ + 1 ELSE @] /\ UNCHANGED toDesk
    <3>1. silent'[c] = (IF silent[c] < MaxMissedPings THEN silent[c] + 1 ELSE silent[c])
      BY <1>1, <2>10 DEF Types
    <3>2. /\ silent' \in [Conns -> 0 .. MaxMissedPings]
          /\ \A b \in Conns \ {c} : silent'[b] = silent[b]
      <4>1. silent'[c] \in 0 .. MaxMissedPings
        BY <1>2, <1>3, <3>1
      <4> QED BY <1>1, <2>10, <3>1, <4>1 DEF Types
    <3>3. Types'
      BY <1>1, <2>2, <2>6, <2>10, <3>2 DEF Types
    <3>4. ASSUME NEW s \in Sessions, Follows(c, s, d) PROVE Follows(c, s, e)
      <4>1. Counted(s, d) => Counted(s, e)
        <5>1. e.silent = (IF d.silent < MaxMissedPings THEN d.silent + 1 ELSE d.silent) /\ s.missed_pings \in Nat
          BY <1>2, <1>4, <3>1
        <5> QED BY <1>3, <2>7, <5>1 DEF Counted
      <4>2. e.unread = d.unread
        BY <1>2, <2>10
      <4> QED BY <2>8, <3>4, <4>1, <4>2, StaysFollows
    <3> QED BY <1>1, <2>2, <2>6, <2>8, <2>10, <3>2, <3>3, <3>4, DeviceMoves DEF d, e
  <2> QED BY <1>7, <2>9, <2>10 DEF HearsPing
<1>8. CASE Leaves(c)
  <2>1. PICK x \in {"vanished", "hungup"} : stage' = [stage EXCEPT ![c] = x]
    BY <1>8 DEF Leaves
  <2>2. stage[c] \in {"hello", "asked", "on"} /\ UNCHANGED <<verdict, silent, toDesk, toDevice>>
    BY <1>8 DEF Leaves
  <2>3. stage' \in [Conns -> Stages] /\ stage'[c] = x /\ \A b \in Conns \ {c} : stage'[b] = stage[b]
    BY <1>1, <2>1 DEF Types, Stages
  <2>4. Types'
    BY <1>1, <2>2, <2>3 DEF Types
  <2>5. ASSUME NEW s \in Sessions, Follows(c, s, d) PROVE Follows(c, s, e)
    <3>1. /\ d.stage \in {"hello", "asked", "on"} /\ e.stage \in {"vanished", "hungup"} /\ e.verdict = d.verdict
          /\ e.unread = d.unread /\ e.silent = d.silent /\ e.pings = d.pings
      BY <1>2, <2>2, <2>3
    <3>2. Counted(s, d) => Counted(s, e)
      BY <3>1 DEF Counted
    <3> QED BY <2>5, <3>1, <3>2, StaysFollows
  <2>6. stage[c] # "away" /\ stage'[c] \in {"vanished", "hungup"}
    BY <2>2, <2>3
  <2> QED BY <1>1, <2>2, <2>3, <2>4, <2>5, <2>6, DeviceMoves DEF d, e
<1> QED BY <1>5, <1>6, <1>7, <1>8

LEMMA ConnectKeepsOrder ==
    ASSUME Handshake, NEW c \in Conns, Connect(c)
    PROVE  Handshake'
<1>1. /\ Types /\ QueueInv /\ stage[c] = "away" /\ backlog' = Append(backlog, c) /\ stage' = [stage EXCEPT ![c] = "hello"]
      /\ UNCHANGED <<serving, session, file, toDevice, verdict, silent>>
  BY DEF Handshake, Connect
<1>2. stage' \in [Conns -> Stages] /\ stage'[c] = "hello" /\ \A b \in Conns \ {c} : stage'[b] = stage[b]
  BY <1>1 DEF Types, Stages
<1>3. /\ toDesk' \in [Conns -> Seq(Nat)] /\ \A b \in Conns \ {c} : toDesk'[b] = toDesk[b]
      /\ toDesk'[c] = IF c \in HasPassword THEN Word(Challenge) ELSE <<>>
  <2>1. toDesk[c] = <<>>
    BY <1>1 DEF Handshake
  <2>2. CASE c \in HasPassword
    <3>1. Says(c, Word(Challenge)) /\ Word(Challenge) \in Seq(Nat)
      BY <2>2, Streams, WordFacts DEF Connect
    <3>2. <<>> \o Word(Challenge) = Word(Challenge)
      BY <3>1, ConcatEmptySeq
    <3> QED BY <1>1, <2>1, <2>2, <3>1, <3>2, SaysType
  <2>3. CASE c \notin HasPassword
    BY <1>1, <2>1, <2>3 DEF Connect, Types
  <2> QED BY <2>2, <2>3
<1>4. Types'
  BY <1>1, <1>2, <1>3 DEF Types
<1>5. /\ backlog \in Seq(Conns) /\ backlog' \in Seq(Conns) /\ Len(backlog') = Len(backlog) + 1
      /\ backlog'[Len(backlog) + 1] = c /\ \A i \in 1 .. Len(backlog) : backlog'[i] = backlog[i]
  BY <1>1, AppendProperties DEF QueueInv
<1>6. DOMAIN backlog = 1 .. Len(backlog) /\ DOMAIN backlog' = 1 .. Len(backlog) + 1 /\ Len(backlog) \in Nat
  BY <1>5, LenProperties
<1>7. \A i \in 1 .. Len(backlog) : backlog[i] \in Conns \ {c} /\ backlog[i] # serving
  BY <1>1, <1>5, <1>6 DEF QueueInv
<1>8. serving # c
  <2>1. SUFFICES ASSUME serving = c PROVE FALSE
    OBVIOUS
  <2>2. Follows(c, session, View(c)) /\ View(c).stage = "away"
    <3>1. View(serving) = View(c) /\ serving # None
      BY <2>1, ConnsAssumption
    <3> QED BY <1>1, <2>1, <3>1 DEF Handshake, View
  <2> QED BY <2>2, Present
<1>9. QueueInv'
  <2>1. \A i \in 1 .. Len(backlog) : stage'[backlog[i]] # "away"
    BY <1>1, <1>2, <1>6, <1>7 DEF QueueInv
  <2>2. \A i \in DOMAIN backlog' : backlog'[i] # serving /\ stage'[backlog'[i]] # "away"
    BY <1>2, <1>5, <1>6, <1>7, <1>8, <2>1
  <2>3. \A i, j \in DOMAIN backlog' : backlog'[i] = backlog'[j] => i = j
    <3> SUFFICES ASSUME NEW i \in DOMAIN backlog', NEW j \in DOMAIN backlog', backlog'[i] = backlog'[j] PROVE i = j
      OBVIOUS
    <3>1. i \in 1 .. Len(backlog) \/ i = Len(backlog) + 1
      BY <1>6
    <3>2. j \in 1 .. Len(backlog) \/ j = Len(backlog) + 1
      BY <1>6
    <3>3. CASE i \in 1 .. Len(backlog) /\ j \in 1 .. Len(backlog)
      BY <1>1, <1>5, <1>6, <3>3 DEF QueueInv
    <3> QED BY <1>5, <1>7, <3>1, <3>2, <3>3
  <2> QED BY <1>1, <1>5, <2>2, <2>3 DEF QueueInv
<1>10. Accepted'
  BY <1>1, <1>2, ConnsAssumption DEF Handshake, Accepted
<1>11. \A b \in Conns \ {c} : View(b)' = View(b)
  BY <1>1, <1>2, <1>3, SameView
<1>12. Follows(c, Fresh, View(c)')
  <2> DEFINE e == View(c)'
  <2>1. e.stage = "hello" /\ e.verdict = "none" /\ e.unread = (IF c \in HasPassword THEN Word(Challenge) ELSE <<>>)
    BY <1>1, <1>2, <1>3 DEF View, Handshake
  <2>2. IsView(e)
    <3>1. Cardinality(Waiting(toDevice'[c])) \in Nat
      BY <1>4, WaitingFinite DEF Types
    <3> QED BY <1>4, <3>1 DEF View, IsView, Types
  <2> HIDE DEF e
  <2>3. InOrder(c, Fresh) /\ Spoken(c, e) /\ Counted(Fresh, e)
    BY <2>1, <2>2, WordsAssumption DEF InOrder, Spoken, Counted, Fresh, IsView
  <2>4. Unannounced(c, Fresh, e)
    BY <2>1 DEF Unannounced, Fresh, Challenged
  <2>5. Follows(c, Fresh, e)
    BY <2>3, <2>4 DEF Follows
  <2> QED BY <2>5 DEF e
<1>13. ASSUME serving' # None PROVE Follows(serving', session', View(serving)')
  <2>1. PICK b \in Conns \ {c} : serving = b
    BY <1>1, <1>8, <1>13, ConnsAssumption DEF QueueInv
  <2>2. Follows(b, session, View(b))
    <3>1. View(serving) = View(b) /\ serving # None
      BY <1>1, <1>13, <2>1
    <3> QED BY <2>1, <3>1 DEF Handshake
  <2>3. View(serving)' = View(b)'
    BY <1>1, <2>1 DEF View
  <2> QED BY <1>1, <1>11, <2>1, <2>2, <2>3
<1>14. ASSUME NEW i \in DOMAIN backlog' PROVE Follows(backlog'[i], Fresh, View(backlog[i])')
  <2>1. CASE i = Len(backlog) + 1
    <3>1. View(backlog[i])' = View(c)'
      BY <1>5, <2>1 DEF View
    <3> QED BY <1>5, <1>12, <2>1, <3>1
  <2>2. CASE i \in 1 .. Len(backlog)
    <3>1. PICK b \in Conns \ {c} : backlog[i] = b /\ backlog'[i] = b
      BY <1>5, <1>7, <2>2
    <3>2. Follows(b, Fresh, View(b))
      <4>1. View(backlog[i]) = View(b)
        BY <3>1
      <4> QED BY <1>6, <2>2, <3>1, <4>1 DEF Handshake
    <3>3. View(backlog[i])' = View(b)'
      BY <3>1 DEF View
    <3> QED BY <1>11, <3>1, <3>2, <3>3
  <2> QED BY <1>6, <2>1, <2>2
<1>15. \A b \in Conns : stage'[b] = "away" => toDesk'[b] = <<>> /\ verdict'[b] = "none"
  BY <1>1, <1>2, <1>3 DEF Handshake
<1> QED BY <1>4, <1>9, <1>10, <1>13, <1>14, <1>15 DEF Handshake, Fresh

LEMMA TakesType ==
    ASSUME Types, NEW n \in Nat, serving \in Conns, Takes(n)
    PROVE  /\ toDesk' \in [Conns -> Seq(Nat)] /\ toDesk'[serving] = SubSeq(toDesk[serving], n + 1, Len(toDesk[serving]))
           /\ \A b \in Conns \ {serving} : toDesk'[b] = toDesk[b]
           /\ UNCHANGED <<backlog, stage, verdict, silent>>
<1> DEFINE q == toDesk[serving]
<1>1. q \in Seq(Nat) /\ Len(q) \in Nat /\ n + 1 \in Nat
  BY LenProperties DEF Types
<1>2. SubSeq(q, n + 1, Len(q)) \in Seq(Nat)
  <2> HIDE DEF q
  <2>1. \A i \in n + 1 .. Len(q) : q[i] \in Nat
    BY <1>1, ElementOfSeq
  <2> DEFINE a == n + 1
             z == Len(q)
  <2>2. a \in Int /\ z \in Int /\ \A i \in a .. z : q[i] \in Nat
    BY <1>1, <2>1
  <2> HIDE DEF a, z
  <2>3. SubSeq(q, a, z) \in Seq(Nat)
    BY <2>2, SubSeqProperties
  <2> QED BY <2>3 DEF a, z
<1> QED BY <1>2 DEF Types, Takes, devices

(* The connection being served, before a step of the listener.             *)
LEMMA Served ==
    ASSUME Handshake, serving # None
    PROVE  /\ serving \in Conns /\ Types /\ session \in Sessions /\ session.missed_pings \in Nat
           /\ Follows(serving, session, View(serving)) /\ IsView(View(serving))
           /\ View(serving).stage = stage[serving] /\ View(serving).verdict = verdict[serving]
           /\ View(serving).unread = toDesk[serving]
<1>1. serving \in Conns /\ Types
  BY ConnsAssumption DEF Handshake, QueueInv
<1> QED BY <1>1, ViewType DEF Handshake, Types, Sessions, View

LEMMA EndKeepsOrder ==
    ASSUME Handshake, serving # None, EndSession, UNCHANGED <<backlog, stage, verdict, silent>>,
           toDesk' \in [Conns -> Seq(Nat)], toDevice' \in [Conns -> Seq(Wire)],
           \A b \in Conns \ {serving} : toDesk'[b] = toDesk[b] /\ toDevice'[b] = toDevice[b]
    PROVE  Handshake'
<1>1. PICK c \in Conns : serving = c
  BY Served
<1>2. serving' = None /\ file' = None /\ session' \in Sessions
  BY FreshType DEF EndSession
<1>3. Types'
  BY <1>2 DEF Handshake, Types
<1> QED BY <1>1, <1>2, <1>3, ListenerMoves

(* The session goes on as s, having read n units and sent perhaps a word.  *)
LEMMA ContinueKeepsOrder ==
    ASSUME Handshake, serving # None, NEW t \in Sessions, Continue(t), UNCHANGED <<backlog, stage, verdict, silent>>,
           toDesk' \in [Conns -> Seq(Nat)], toDevice' \in [Conns -> Seq(Wire)],
           \A b \in Conns \ {serving} : toDesk'[b] = toDesk[b] /\ toDevice'[b] = toDevice[b],
           \A e : /\ e.stage = stage[serving] /\ e.verdict = verdict[serving] /\ e.unread = toDesk'[serving]
                  /\ e.silent = silent[serving] /\ IsView(e)
                  /\ e.pings = Cardinality(Waiting(toDevice'[serving]))
                  => Follows(serving, t, e),
           t.authenticated /\ ~session.authenticated /\ serving \in HasPassword => verdict[serving] = "yes"
    PROVE  Handshake'
<1>1. PICK c \in Conns : serving = c /\ c # None
  BY Served
<1>2. serving' = c /\ session' = t /\ (file' = file \/ (file' = c /\ (c \in HasPassword => verdict[c] = "yes")))
  <2>1. CASE t.authenticated /\ ~session.authenticated
    BY <1>1, <2>1 DEF Continue
  <2>2. CASE ~(t.authenticated /\ ~session.authenticated)
    BY <1>1, <2>2 DEF Continue
  <2> QED BY <2>1, <2>2
<1>3. Types'
  BY <1>2 DEF Handshake, Types
<1>4. Follows(c, session', View(c)')
  <2> DEFINE e == View(c)'
  <2>1. /\ e.stage = stage[c] /\ e.verdict = verdict[c] /\ e.unread = toDesk'[c] /\ e.silent = silent[c]
        /\ e.pings = Cardinality(Waiting(toDevice'[c]))
    BY DEF View
  <2>2. IsView(e)
    <3>1. Cardinality(Waiting(toDevice'[c])) \in Nat
      BY <1>3, WaitingFinite DEF Types
    <3> QED BY <1>3, <3>1 DEF View, IsView, Types
  <2> HIDE DEF e
  <2>3. Follows(c, t, e)
    BY <1>1, <2>1, <2>2
  <2> QED BY <1>2, <2>3 DEF e
<1> QED BY <1>1, <1>2, <1>3, <1>4, ListenerMoves

(* A word sent to the device leaves what is counted counted.               *)
LEMMA SendsCounts ==
    ASSUME Handshake, serving # None, NEW w \in Wire, Sends(serving, w) \/ UNCHANGED toDevice
    PROVE  /\ toDevice' \in [Conns -> Seq(Wire)]
           /\ \A b \in Conns \ {serving} : toDevice'[b] = toDevice[b]
           /\ Cardinality(Waiting(toDevice'[serving])) \in Nat
           /\ Cardinality(Waiting(toDevice'[serving])) >= View(serving).pings
<1>1. serving \in Conns /\ Types /\ toDevice[serving] \in Seq(Wire)
  BY Served DEF Types
<1>2. View(serving).pings = Cardinality(Waiting(toDevice[serving])) /\ Cardinality(Waiting(toDevice[serving])) \in Nat
  BY <1>1, WaitingFinite DEF View
<1>3. CASE UNCHANGED toDevice
  BY <1>1, <1>2, <1>3 DEF Types
<1>4. CASE Sends(serving, w)
  <2>1. /\ toDevice' \in [Conns -> Seq(Wire)] /\ toDevice'[serving] = Append(toDevice[serving], w)
        /\ \A b \in Conns \ {serving} : toDevice'[b] = toDevice[b]
    BY <1>1, <1>4, SendsType
  <2>2. Cardinality(Waiting(toDevice'[serving])) = Cardinality(Waiting(toDevice[serving])) + (IF w = "ping" THEN 1 ELSE 0)
    BY <1>1, <2>1, WaitingAppend
  <2> QED BY <1>2, <2>1, <2>2
<1> QED BY <1>3, <1>4

LEMMA CountedStays ==
    ASSUME NEW s \in Sessions, NEW t \in Sessions, t.missed_pings = s.missed_pings, NEW d, NEW e, IsView(d), IsView(e),
           e.silent = d.silent, e.pings >= d.pings, Counted(s, d)
    PROVE  Counted(t, e)
<1>1. s.missed_pings \in Nat /\ d.silent \in Nat /\ d.pings \in Nat /\ e.pings \in Nat
  BY WordsAssumption DEF Sessions, IsView
<1> QED BY <1>1 DEF Counted

LEMMA AcceptKeepsOrder == Handshake /\ Accept => Handshake'
<1> SUFFICES ASSUME Handshake, Accept PROVE Handshake'
  OBVIOUS
<1> DEFINE h == Head(backlog)
<1>1. /\ Types /\ QueueInv /\ serving = None /\ backlog # <<>> /\ backlog' = Tail(backlog)
      /\ UNCHANGED <<file, stage, verdict, silent, toDesk, toDevice>>
      /\ IF h \in Peer THEN serving' = h /\ session' = Fresh ELSE UNCHANGED <<serving, session>>
  BY DEF Handshake, Accept, devices
<1>2. /\ backlog \in Seq(Conns) /\ backlog' \in Seq(Conns) /\ Len(backlog') = Len(backlog) - 1
      /\ \A i \in 1 .. Len(backlog) - 1 : backlog'[i] = backlog[i + 1]
      /\ Len(backlog) \in Nat /\ Len(backlog) >= 1
  <2>1. backlog \in Seq(Conns) /\ backlog # <<>>
    BY <1>1 DEF QueueInv
  <2>2. Tail(backlog) \in Seq(Conns) /\ Len(Tail(backlog)) = Len(backlog) - 1
    BY <2>1, HeadTailProperties
  <2>3. \A i \in 1 .. Len(Tail(backlog)) : Tail(backlog)[i] = backlog[i + 1]
    BY <2>1, HeadTailProperties
  <2>4. Len(backlog) \in Nat /\ Len(backlog) >= 1
    BY <2>1, EmptySeq
  <2> QED BY <1>1, <2>1, <2>2, <2>3, <2>4
<1>3. /\ DOMAIN backlog = 1 .. Len(backlog) /\ DOMAIN backlog' = 1 .. Len(backlog) - 1
      /\ 1 \in DOMAIN backlog /\ h = backlog[1] /\ h \in Conns
  <2>1. DOMAIN backlog = 1 .. Len(backlog) /\ DOMAIN backlog' = 1 .. Len(backlog')
    BY <1>2, LenProperties
  <2>2. h = backlog[1] /\ 1 \in 1 .. Len(backlog)
    BY <1>2
  <2> QED BY <1>2, <2>1, <2>2, ElementOfSeq
<1> HIDE DEF h
<1>4. ASSUME NEW i \in DOMAIN backlog'
      PROVE  /\ i + 1 \in DOMAIN backlog /\ backlog'[i] = backlog[i + 1] /\ backlog'[i] \in Conns
             /\ backlog'[i] # h /\ stage[backlog'[i]] # "away" /\ Follows(backlog'[i], Fresh, View(backlog[i + 1]))
  <2>1. i + 1 \in DOMAIN backlog /\ backlog'[i] = backlog[i + 1] /\ i + 1 # 1
    BY <1>2, <1>3
  <2>2. backlog[i + 1] # h
    BY <1>1, <1>3, <2>1 DEF QueueInv
  <2> QED BY <1>1, <1>2, <1>3, <2>1, <2>2, ElementOfSeq DEF Handshake, QueueInv
<1>5. Types'
  BY <1>1, FreshType DEF Types
<1>6. serving' \in Peer \cup {None} /\ (serving' # None => serving' = h /\ session' = Fresh)
  BY <1>1
<1>7. QueueInv'
  <2>1. \A i, j \in DOMAIN backlog' : backlog'[i] = backlog'[j] => i = j
    <3> SUFFICES ASSUME NEW i \in DOMAIN backlog', NEW j \in DOMAIN backlog', backlog'[i] = backlog'[j] PROVE i = j
      OBVIOUS
    <3>1. i + 1 = j + 1
      BY <1>1, <1>4 DEF QueueInv
    <3> QED BY <1>3, <3>1
  <2>2. \A i \in DOMAIN backlog' : backlog'[i] # serving' /\ stage'[backlog'[i]] # "away"
    BY <1>1, <1>4, <1>6, ConnsAssumption
  <2> QED BY <1>2, <1>6, <2>1, <2>2 DEF QueueInv
<1>8. ASSUME serving' # None PROVE Follows(serving', session', View(serving)')
  <2>1. Follows(h, Fresh, View(h))
    <3>1. View(backlog[1]) = View(h)
      BY <1>3
    <3> QED BY <1>3, <3>1 DEF Handshake
  <2>2. View(serving)' = View(h)
    BY <1>1, <1>6, <1>8 DEF View
  <2> QED BY <1>6, <1>8, <2>1, <2>2
<1>9. ASSUME NEW i \in DOMAIN backlog' PROVE Follows(backlog'[i], Fresh, View(backlog[i])')
  <2>1. View(backlog[i])' = View(backlog[i + 1])
    BY <1>1, <1>4 DEF View
  <2> QED BY <1>4, <2>1
<1>10. Accepted'
  BY <1>1 DEF Handshake, Accepted
<1>11. \A c \in Conns : stage'[c] = "away" => toDesk'[c] = <<>> /\ verdict'[c] = "none"
  BY <1>1 DEF Handshake
<1> QED BY <1>5, <1>7, <1>8, <1>9, <1>10, <1>11 DEF Handshake, Fresh

LEMMA ReplyKeepsOrder == Handshake /\ ReadReply => Handshake'
<1> SUFFICES ASSUME Handshake, ReadReply PROVE Handshake'
  OBVIOUS
<1> DEFINE d == View(serving)
<1>1. /\ serving # None /\ session.awaiting_password_reply /\ Len(toDesk[serving]) >= 1 /\ Takes(1)
      /\ IF toDesk[serving][1] = 0 THEN EndSession /\ UNCHANGED toDevice
         ELSE /\ Sends(serving, "ping")
              /\ Continue([session EXCEPT !.awaiting_password_reply = FALSE, !.authenticated = TRUE])
  BY DEF ReadReply, stream
<1>2. /\ serving \in Conns /\ Types /\ session \in Sessions /\ Follows(serving, session, d) /\ IsView(d)
      /\ d.stage = stage[serving] /\ d.verdict = verdict[serving] /\ d.unread = toDesk[serving]
  BY <1>1, Served
<1>3. /\ toDesk' \in [Conns -> Seq(Nat)] /\ toDesk'[serving] = SubSeq(toDesk[serving], 2, Len(toDesk[serving]))
      /\ \A b \in Conns \ {serving} : toDesk'[b] = toDesk[b]
      /\ UNCHANGED <<backlog, stage, verdict, silent>>
  <2>1. 1 \in Nat /\ 1 + 1 = 2
    OBVIOUS
  <2> QED BY <1>1, <1>2, <2>1, TakesType
<1>4. d.silent = silent[serving]
  BY DEF View
<1>5. CASE toDesk[serving][1] = 0
  <2>1. EndSession /\ UNCHANGED toDevice
    BY <1>1, <1>5
  <2> QED BY <1>1, <1>2, <1>3, <2>1, EndKeepsOrder DEF Types
<1>6. CASE toDesk[serving][1] # 0
  <2> DEFINE t == [session EXCEPT !.awaiting_password_reply = FALSE, !.authenticated = TRUE]
  <2>1. /\ t \in Sessions /\ ~t.awaiting_password_reply /\ t.authenticated /\ t.locked = session.locked
        /\ t.info = session.info /\ t.missed_pings = session.missed_pings
    BY <1>2 DEF Sessions
  <2>2. Continue(t) /\ Sends(serving, "ping")
    BY <1>1, <1>6
  <2> HIDE DEF t, d
  <2>3. /\ toDevice' \in [Conns -> Seq(Wire)] /\ \A b \in Conns \ {serving} : toDevice'[b] = toDevice[b]
        /\ Cardinality(Waiting(toDevice'[serving])) >= d.pings
    <3>1. "ping" \in Wire
      BY DEF Wire
    <3> QED BY <1>1, <2>2, <3>1, SendsCounts DEF d
  <2>4. d.verdict \in {"none", "yes", "no"} /\ Len(d.unread) >= 1 /\ d.unread[1] # 0
    BY <1>1, <1>2, <1>6 DEF IsView
  <2>5. ASSUME NEW e, e.stage = stage[serving], e.verdict = verdict[serving], e.unread = toDesk'[serving],
               e.silent = silent[serving], IsView(e), e.pings = Cardinality(Waiting(toDevice'[serving]))
        PROVE  d.verdict = "yes" /\ Follows(serving, t, e)
    <3>1. Counted(session, d) => Counted(t, e)
      BY <1>2, <1>4, <2>1, <2>3, <2>5, CountedStays
    <3>2. e.stage = d.stage /\ e.verdict = d.verdict /\ e.unread = SubSeq(d.unread, 2, Len(d.unread))
      BY <1>2, <1>3, <2>5
    <3> QED BY <1>1, <1>2, <2>1, <2>4, <3>1, <3>2, ReadsVerdict
  <2>6. verdict[serving] = "yes"
    <3> DEFINE e == [d EXCEPT !.unread = SubSeq(d.unread, 2, Len(d.unread))]
    <3>1. DOMAIN d = {"stage", "verdict", "unread", "silent", "pings"}
      BY DEF d, View
    <3>2. e.stage = d.stage /\ e.verdict = d.verdict /\ e.unread = SubSeq(d.unread, 2, Len(d.unread))
          /\ e.silent = d.silent /\ e.pings = d.pings
      BY <3>1
    <3> HIDE DEF e
    <3>3. Counted(session, d) => Counted(t, e)
      BY <2>1, <3>2 DEF Counted
    <3> QED BY <1>1, <1>2, <2>1, <2>4, <3>2, <3>3, ReadsVerdict
  <2> QED BY <1>1, <1>3, <2>1, <2>2, <2>3, <2>5, <2>6, ContinueKeepsOrder
<1> QED BY <1>5, <1>6

LEMMA HeaderKeepsOrder == Handshake /\ ReadHeader => Handshake'
<1> SUFFICES ASSUME Handshake, ReadHeader PROVE Handshake'
  OBVIOUS
<1> DEFINE d == View(serving)
           h == Header(toDesk[serving])
<1>1. /\ serving # None /\ ~session.awaiting_password_reply /\ Len(toDesk[serving]) >= 2 /\ Takes(2)
      /\ \/ h = 0 /\ Continue(session) /\ UNCHANGED toDevice
         \/ h = DCCM_PING /\ handle_ping
         \/ 0 < h /\ h < MinPacket /\ EndSession /\ UNCHANGED toDevice
         \/ MinPacket <= h /\ h < MaxPacket /\ handle_info
         \/ MaxPacket <= h /\ h # DCCM_PING /\ handle_challenge
  BY DEF ReadHeader, stream
<1>2. /\ serving \in Conns /\ Types /\ session \in Sessions /\ Follows(serving, session, d) /\ IsView(d)
      /\ d.stage = stage[serving] /\ d.verdict = verdict[serving] /\ d.unread = toDesk[serving]
  BY <1>1, Served
<1>3. /\ toDesk' \in [Conns -> Seq(Nat)] /\ toDesk'[serving] = SubSeq(toDesk[serving], 3, Len(toDesk[serving]))
      /\ \A b \in Conns \ {serving} : toDesk'[b] = toDesk[b]
      /\ UNCHANGED <<backlog, stage, verdict, silent>>
  <2>1. 2 \in Nat /\ 2 + 1 = 3
    OBVIOUS
  <2> QED BY <1>1, <1>2, <2>1, TakesType
<1>4. d.silent = silent[serving] /\ Header(d.unread) = h /\ Len(d.unread) >= 2
  BY <1>1, <1>2 DEF View
<1> HIDE DEF d, h
<1>5. ASSUME EndSession, UNCHANGED toDevice PROVE Handshake'
  BY <1>1, <1>2, <1>3, <1>5, EndKeepsOrder DEF Types
<1>6. ASSUME NEW w \in Wire, Sends(serving, w) \/ UNCHANGED toDevice
      PROVE  /\ toDevice' \in [Conns -> Seq(Wire)] /\ \A b \in Conns \ {serving} : toDevice'[b] = toDevice[b]
             /\ Cardinality(Waiting(toDevice'[serving])) >= d.pings
  BY <1>1, <1>6, SendsCounts DEF d
<1> DEFINE After(e) == /\ e.stage = stage[serving] /\ e.verdict = verdict[serving] /\ e.unread = toDesk'[serving]
                       /\ e.silent = silent[serving] /\ IsView(e)
                       /\ e.pings = Cardinality(Waiting(toDevice'[serving]))
<1>7. ASSUME NEW e, After(e)
      PROVE  /\ e.stage = d.stage /\ e.verdict = d.verdict /\ e.unread = SubSeq(d.unread, 3, Len(d.unread))
             /\ e.silent = d.silent
  BY <1>2, <1>3, <1>4, <1>7
<1>8. ASSUME NEW t \in Sessions, t.missed_pings = session.missed_pings, NEW e, After(e),
             NEW w \in Wire, Sends(serving, w) \/ UNCHANGED toDevice
      PROVE  Counted(session, d) => Counted(t, e)
  <2>1. Cardinality(Waiting(toDevice'[serving])) >= d.pings
    BY <1>6, <1>8
  <2> QED BY <1>2, <1>4, <1>8, <2>1, CountedStays
<1>9. ASSUME NEW t \in Sessions, Continue(t), NEW w \in Wire, Sends(serving, w) \/ UNCHANGED toDevice,
             \A e : After(e) => Follows(serving, t, e),
             t.authenticated /\ ~session.authenticated => serving \notin HasPassword
      PROVE  Handshake'
  <2>1. toDevice' \in [Conns -> Seq(Wire)] /\ \A b \in Conns \ {serving} : toDevice'[b] = toDevice[b]
    BY <1>6, <1>9
  <2> QED BY <1>1, <1>3, <1>9, <2>1, ContinueKeepsOrder
<1> HIDE DEF After
<1>10. "ping" \in Wire /\ "password" \in Wire
  BY DEF Wire
<1>11. /\ MinPacket \in Nat /\ MaxPacket \in Nat /\ MinPacket <= Info /\ Info < MaxPacket /\ 0 < Runt /\ Runt < MinPacket
       /\ MaxPacket <= Challenge /\ Challenge # DCCM_PING /\ MaxPacket <= DCCM_PING
       /\ Info \in Nat /\ Runt \in Nat /\ Challenge \in Nat /\ DCCM_PING \in Nat
  BY WordsAssumption, PingFacts
<1>12. CASE ~Challenged(serving, session)
  <2>1. session.locked \in BOOLEAN /\ ~session.locked /\ ~session.authenticated /\ ~session.info
    <3>1. /\ session.info \in BOOLEAN /\ session.locked \in BOOLEAN
          /\ session.awaiting_password_reply \in BOOLEAN /\ session.authenticated \in BOOLEAN
      BY <1>2 DEF Sessions
    <3>2. ~session.locked /\ serving \in HasPassword
      BY <1>12 DEF Challenged
    <3>3. InOrder(serving, session)
      BY <1>2 DEF Follows
    <3> QED BY <3>1, <3>2, <3>3 DEF InOrder
  <2> DEFINE t == [session EXCEPT !.locked = TRUE]
  <2>2. /\ t \in Sessions /\ t.locked /\ t.info = session.info /\ t.missed_pings = session.missed_pings
        /\ t.awaiting_password_reply = session.awaiting_password_reply /\ t.authenticated = session.authenticated
    BY <1>2 DEF Sessions
  <2>3. h = Challenge
    <3> DEFINE e == [d EXCEPT !.unread = SubSeq(d.unread, 3, Len(d.unread))]
    <3>1. DOMAIN d = {"stage", "verdict", "unread", "silent", "pings"}
      BY DEF d, View
    <3>2. e.stage = d.stage /\ e.verdict = d.verdict /\ e.unread = SubSeq(d.unread, 3, Len(d.unread))
          /\ e.silent = d.silent /\ e.pings = d.pings
      BY <3>1
    <3> HIDE DEF e, t
    <3>3. Counted(session, d) => Counted(t, e)
      BY <2>2, <3>2 DEF Counted
    <3>4. Header(d.unread) = Challenge
      BY <1>2, <1>4, <1>12, <2>2, <3>2, <3>3, ReadsChallenge
    <3> QED BY <1>4, <3>4
  <2>4. handle_challenge
    BY <1>1, <1>11, <2>3
  <2>5. CASE EndSession /\ UNCHANGED toDevice
    BY <1>5, <2>5
  <2>6. CASE Sends(serving, "password") /\ Continue(t)
    <3> HIDE DEF t
    <3>1. ASSUME NEW e, After(e) PROVE Follows(serving, t, e)
      <4>1. Counted(session, d) => Counted(t, e)
        BY <1>8, <1>10, <2>2, <2>6, <3>1
      <4>2. /\ e.stage = d.stage /\ e.verdict = d.verdict /\ e.unread = SubSeq(d.unread, 3, Len(d.unread))
        BY <1>7, <3>1
      <4> QED BY <1>2, <1>4, <1>12, <2>2, <4>1, <4>2, ReadsChallenge
    <3>2. ~(t.authenticated /\ ~session.authenticated)
      BY <2>2
    <3> QED BY <1>9, <1>10, <2>2, <2>6, <3>1, <3>2
  <2> QED BY <2>4, <2>5, <2>6 DEF handle_challenge
<1>13. CASE Challenged(serving, session) /\ ~session.info
  <2>1. \/ /\ h = Info
           /\ \A t \in Sessions : \A e :
                /\ t.info /\ t.locked = session.locked /\ t.missed_pings = session.missed_pings
                /\ t.awaiting_password_reply = session.locked /\ t.authenticated = ~session.locked
                /\ e.stage = d.stage /\ e.verdict = d.verdict /\ e.unread = SubSeq(d.unread, 3, Len(d.unread))
                /\ Counted(session, d) => Counted(t, e)
                => Follows(serving, t, e)
        \/ /\ h = 0
           /\ \A e : /\ e.stage = d.stage /\ e.verdict = d.verdict /\ e.unread = SubSeq(d.unread, 3, Len(d.unread))
                     /\ Counted(session, d) => Counted(session, e)
                     => Follows(serving, session, e)
        \/ h = Runt
    BY <1>2, <1>4, <1>13, ReadsAnnouncement
  <2>2. session.info = FALSE /\ session.authenticated = FALSE /\ session.awaiting_password_reply = FALSE /\ session.locked \in BOOLEAN
    BY <1>1, <1>2, <1>13 DEF Sessions, Follows, InOrder
  <2>3. CASE h = Runt
    BY <1>1, <1>5, <1>11, <2>3
  <2>4. CASE h = 0 /\ \A e : /\ e.stage = d.stage /\ e.verdict = d.verdict
                             /\ e.unread = SubSeq(d.unread, 3, Len(d.unread))
                             /\ Counted(session, d) => Counted(session, e)
                             => Follows(serving, session, e)
    <3>1. Continue(session) /\ UNCHANGED toDevice
      BY <1>1, <1>11, <2>4
    <3>2. ASSUME NEW e, After(e) PROVE Follows(serving, session, e)
      <4>1. Counted(session, d) => Counted(session, e)
        BY <1>2, <1>8, <1>10, <3>1, <3>2
      <4> QED BY <1>7, <2>4, <3>2, <4>1
    <3> QED BY <1>2, <1>9, <1>10, <3>1, <3>2
  <2>5. CASE /\ h = Info
             /\ \A t \in Sessions : \A e :
                  /\ t.info /\ t.locked = session.locked /\ t.missed_pings = session.missed_pings
                  /\ t.awaiting_password_reply = session.locked /\ t.authenticated = ~session.locked
                  /\ e.stage = d.stage /\ e.verdict = d.verdict /\ e.unread = SubSeq(d.unread, 3, Len(d.unread))
                  /\ Counted(session, d) => Counted(t, e)
                  => Follows(serving, t, e)
    <3>1. handle_info
      BY <1>1, <1>11, <2>5
    <3>2. ASSUME NEW t \in Sessions, Continue(t), Sends(serving, "ping") \/ UNCHANGED toDevice,
                 t.info /\ t.locked = session.locked /\ t.missed_pings = session.missed_pings,
                 t.awaiting_password_reply = session.locked /\ t.authenticated = ~session.locked
          PROVE  Handshake'
      <4>1. ASSUME NEW e, After(e) PROVE Follows(serving, t, e)
        <5>1. Counted(session, d) => Counted(t, e)
          BY <1>8, <1>10, <3>2, <4>1
        <5> QED BY <1>7, <2>5, <3>2, <4>1, <5>1
      <4>2. t.authenticated => serving \notin HasPassword
        BY <1>13, <3>2 DEF Challenged
      <4> QED BY <1>9, <1>10, <3>2, <4>1, <4>2
    <3>3. CASE session.locked
      <4> DEFINE t == [session EXCEPT !.info = TRUE, !.awaiting_password_reply = TRUE]
      <4>1. Continue(t) /\ UNCHANGED toDevice
        BY <3>1, <3>3 DEF handle_info
      <4>2. /\ t \in Sessions /\ t.info /\ t.locked = session.locked /\ t.missed_pings = session.missed_pings
            /\ t.awaiting_password_reply = session.locked /\ t.authenticated = ~session.locked
        BY <1>2, <2>2, <3>3 DEF Sessions
      <4> HIDE DEF t
      <4> QED BY <3>2, <4>1, <4>2
    <3>4. CASE ~session.locked
      <4> DEFINE t == [session EXCEPT !.info = TRUE, !.authenticated = TRUE]
      <4>1. Continue(t) /\ Sends(serving, "ping")
        BY <3>1, <3>4 DEF handle_info
      <4>2. /\ t \in Sessions /\ t.info /\ t.locked = session.locked /\ t.missed_pings = session.missed_pings
            /\ t.awaiting_password_reply = session.locked /\ t.authenticated = ~session.locked
        BY <1>2, <2>2, <3>4 DEF Sessions
      <4> HIDE DEF t
      <4> QED BY <3>2, <4>1, <4>2
    <3> QED BY <3>3, <3>4
  <2> QED BY <2>1, <2>3, <2>4, <2>5
<1>14. CASE session.info
  <2>1. session.authenticated
    BY <1>1, <1>2, <1>14 DEF Follows, InOrder
  <2> DEFINE t == [session EXCEPT !.missed_pings = 0]
  <2>2. /\ t \in Sessions /\ t.locked = session.locked /\ t.info = session.info /\ t.missed_pings = 0
        /\ t.awaiting_password_reply = session.awaiting_password_reply /\ t.authenticated = session.authenticated
    BY <1>2 DEF Sessions
  <2>3. h = DCCM_PING
    <3> DEFINE e == [d EXCEPT !.unread = SubSeq(d.unread, 3, Len(d.unread))]
    <3>1. DOMAIN d = {"stage", "verdict", "unread", "silent", "pings"}
      BY DEF d, View
    <3>2. e.stage = d.stage /\ e.verdict = d.verdict /\ e.unread = SubSeq(d.unread, 3, Len(d.unread))
          /\ e.silent = d.silent /\ e.pings = d.pings
      BY <3>1
    <3> HIDE DEF e, t
    <3>3. IsView(e)
      <4>1. SubSeq(d.unread, 3, Len(d.unread)) \in Seq(Nat)
        BY <1>2, <1>3
      <4> QED BY <1>2, <3>2, <4>1 DEF IsView
    <3>4. Header(d.unread) = DCCM_PING
      BY <1>2, <1>4, <2>1, <2>2, <3>2, <3>3, ReadsAnswer
    <3> QED BY <1>4, <3>4
  <2>4. Continue(t) /\ UNCHANGED toDevice
    BY <1>1, <1>11, <2>3 DEF handle_ping
  <2> HIDE DEF t
  <2>5. ASSUME NEW e, After(e) PROVE Follows(serving, t, e)
    <3>1. IsView(e)
      BY <2>5 DEF After
    <3>2. e.stage = d.stage /\ e.verdict = d.verdict /\ e.unread = SubSeq(d.unread, 3, Len(d.unread))
      BY <1>7, <2>5
    <3> QED BY <1>2, <1>4, <2>1, <2>2, <3>1, <3>2, ReadsAnswer
  <2> QED BY <1>9, <1>10, <2>1, <2>2, <2>4, <2>5
<1> QED BY <1>12, <1>13, <1>14

(* The timer.  Nothing is left to read, so every ping counted as missed is *)
(* one the device let pass or has not heard; one more is on its way.       *)
LEMMA OnTheTimer ==
    ASSUME Handshake, Tick
    PROVE  /\ serving # None /\ toDesk[serving] = <<>> /\ Counted(session, View(serving))
           /\ Sends(serving, "ping") /\ UNCHANGED <<backlog, stage, verdict, silent, toDesk>>
           /\ toDevice' \in [Conns -> Seq(Wire)] /\ \A b \in Conns \ {serving} : toDevice'[b] = toDevice[b]
           /\ Cardinality(Waiting(toDevice'[serving])) = View(serving).pings + 1
<1>1. /\ serving # None /\ toDesk[serving] = <<>> /\ Sends(serving, "ping")
      /\ UNCHANGED <<backlog, stage, verdict, silent, toDesk>>
  BY DEF Tick, stream, devices
<1>2. /\ serving \in Conns /\ Types /\ session \in Sessions /\ Follows(serving, session, View(serving))
      /\ View(serving).unread = toDesk[serving]
  BY <1>1, Served
<1>3. Counted(session, View(serving))
  BY <1>1, <1>2, SilenceIsCounted
<1>4. "ping" \in Wire /\ toDevice[serving] \in Seq(Wire) /\ View(serving).pings = Cardinality(Waiting(toDevice[serving]))
  BY <1>2 DEF Wire, Types, View
<1>5. /\ toDevice' \in [Conns -> Seq(Wire)] /\ toDevice'[serving] = Append(toDevice[serving], "ping")
      /\ \A b \in Conns \ {serving} : toDevice'[b] = toDevice[b]
  BY <1>1, <1>2, <1>4, SendsType
<1>6. Cardinality(Waiting(toDevice'[serving])) = View(serving).pings + 1
  BY <1>4, <1>5, WaitingAppend
<1> QED BY <1>1, <1>3, <1>5, <1>6

LEMMA TickKeepsOrder == Handshake /\ Tick => Handshake'
<1> SUFFICES ASSUME Handshake, Tick PROVE Handshake'
  OBVIOUS
<1> DEFINE d == View(serving)
           t == [session EXCEPT !.missed_pings = @ + 1]
<1>1. /\ serving # None /\ Counted(session, d) /\ UNCHANGED <<backlog, stage, verdict, silent, toDesk>>
      /\ toDevice' \in [Conns -> Seq(Wire)] /\ \A b \in Conns \ {serving} : toDevice'[b] = toDevice[b]
      /\ Cardinality(Waiting(toDevice'[serving])) = d.pings + 1
  BY OnTheTimer
<1>2. /\ serving \in Conns /\ Types /\ session \in Sessions /\ Follows(serving, session, d) /\ IsView(d)
      /\ d.stage = stage[serving] /\ d.verdict = verdict[serving] /\ d.unread = toDesk[serving]
      /\ d.silent = silent[serving]
  BY <1>1, Served DEF View
<1>3. toDesk' \in [Conns -> Seq(Nat)] /\ \A b \in Conns \ {serving} : toDesk'[b] = toDesk[b]
  BY <1>1, <1>2 DEF Types
<1>4. CASE EndSession
  BY <1>1, <1>3, <1>4, EndKeepsOrder
<1>5. CASE Continue(t)
  <2>1. /\ t \in Sessions /\ t.info = session.info /\ t.locked = session.locked
        /\ t.awaiting_password_reply = session.awaiting_password_reply
        /\ t.authenticated = session.authenticated /\ t.missed_pings = session.missed_pings + 1
    BY <1>2 DEF Sessions
  <2>2. t.authenticated \in BOOLEAN /\ session.missed_pings \in Nat
    BY <1>2, <2>1 DEF Sessions
  <2> HIDE DEF t, d
  <2>3. ASSUME NEW e, e.stage = stage[serving], e.verdict = verdict[serving], e.unread = toDesk'[serving],
               e.silent = silent[serving], IsView(e), e.pings = Cardinality(Waiting(toDevice'[serving]))
        PROVE  Follows(serving, t, e)
    <3>1. Counted(t, e)
      BY <1>1, <1>2, <2>1, <2>2, <2>3 DEF Counted, IsView
    <3>2. e.stage = d.stage /\ e.verdict = d.verdict /\ e.unread = d.unread
      BY <1>1, <1>2, <2>3
    <3> QED BY <1>2, <2>1, <3>1, <3>2, StaysFollows
  <2>4. ~(t.authenticated /\ ~session.authenticated)
    BY <2>1
  <2> QED BY <1>1, <1>3, <1>5, <2>1, <2>3, <2>4, ContinueKeepsOrder
<1> QED BY <1>4, <1>5 DEF Tick

LEMMA FailedReadKeepsOrder == Handshake /\ ReadFails => Handshake'
<1> SUFFICES ASSUME Handshake, ReadFails PROVE Handshake'
  OBVIOUS
<1>1. serving # None /\ EndSession /\ UNCHANGED toDevice /\ Takes(Len(toDesk[serving]))
  BY DEF ReadFails, stream
<1>2. serving \in Conns /\ Types /\ toDesk[serving] \in Seq(Nat) /\ toDevice \in [Conns -> Seq(Wire)]
  BY <1>1, Served DEF Types
<1>3. /\ toDesk' \in [Conns -> Seq(Nat)] /\ \A b \in Conns \ {serving} : toDesk'[b] = toDesk[b]
      /\ UNCHANGED <<backlog, stage, verdict, silent>>
  <2>1. Len(toDesk[serving]) \in Nat
    BY <1>2, LenProperties
  <2> QED BY <1>1, <1>2, <2>1, TakesType
<1> QED BY <1>1, <1>2, <1>3, EndKeepsOrder

(* The listener dies, or is interrupted: the queue is lost with it.        *)
LEMMA StopKeepsOrder == Handshake /\ (Kill \/ Interrupt) => Handshake'
<1> SUFFICES ASSUME Handshake, Kill \/ Interrupt PROVE Handshake'
  OBVIOUS
<1>1. /\ UNCHANGED <<stage, verdict, silent, toDesk, toDevice>> /\ backlog' = <<>>
      /\ serving' = None /\ file' \in {file, None} /\ session' \in Sessions
  BY FreshType DEF Kill, Interrupt, EndSession, devices, Handshake, Types
<1>2. Types'
  BY <1>1 DEF Handshake, Types
<1>3. DOMAIN backlog' = {}
  BY <1>1
<1> QED BY <1>1, <1>2, <1>3, ConnsAssumption DEF Handshake, QueueInv, Accepted

LEMMA IdleKeepsOrder == Handshake /\ (Restart \/ UNCHANGED vars) => Handshake'
<1> SUFFICES ASSUME Handshake, Restart \/ UNCHANGED vars PROVE Handshake'
  OBVIOUS
<1>1. UNCHANGED <<backlog, serving, session, file, stage, verdict, silent, toDesk, toDevice>>
  BY DEF Restart, vars, server, devices
<1> QED BY <1>1 DEF Handshake, Types, QueueInv, Accepted, View

LEMMA StepKeepsOrder == Handshake /\ ~EchoEarly /\ [Next]_vars => Handshake'
<1> SUFFICES ASSUME Handshake, ~EchoEarly, [Next]_vars PROVE Handshake'
  OBVIOUS
<1>1. CASE Device
  BY <1>1, ConnectKeepsOrder, DeviceKeepsOrder DEF Device
<1>2. CASE Listen
  BY <1>2, AcceptKeepsOrder, ReplyKeepsOrder, HeaderKeepsOrder, FailedReadKeepsOrder, TickKeepsOrder DEF Listen
<1> QED BY <1>1, <1>2, StopKeepsOrder, IdleKeepsOrder DEF Next

LEMMA InOrderAlways == ASSUME ~EchoEarly PROVE Spec => []Handshake
<1>1. Handshake /\ [Next]_vars => Handshake'
  BY StepKeepsOrder
<1> QED BY <1>1, InitHandshake, PTL DEF Spec

(* A locked device whose pings wait until it has replied to the password is*)
(* announced to the other tools only once it has accepted the password:    *)
(* the word the listener takes for the verdict (_read_reply) is never a    *)
(* ping, nor the verdict of another connection.                            *)
THEOREM AnnouncedWhenAccepted == ~EchoEarly => (Spec => []AnnouncedIfAccepted)
<1> SUFFICES ASSUME ~EchoEarly PROVE Spec => []AnnouncedIfAccepted
  OBVIOUS
<1>1. Handshake => AnnouncedIfAccepted
  BY DEF Handshake, Accepted, AnnouncedIfAccepted
<1> QED BY <1>1, InOrderAlways, PTL

(* Giving up a device for its silence (the ping loop of _serve_client) is  *)
(* never unjust: MaxMissedPings pings have gone out since its last answer, *)
(* however the timer, its answers and the listener's reads interleave.     *)
THEOREM DroppedWhenSilent == ~EchoEarly => (Spec => DroppedForSilence)
<1> SUFFICES ASSUME ~EchoEarly PROVE Spec => DroppedForSilence
  OBVIOUS
<1> DEFINE Just(c) == serving = c /\ serving' = None /\ session.missed_pings = MaxMissedPings - 1
                        /\ Len(toDevice'[c]) > Len(toDevice[c]) => Unanswered(c) >= MaxMissedPings
<1>1. ASSUME Handshake, [Next]_vars, NEW c \in Conns PROVE Just(c)
  <2> SUFFICES ASSUME serving = c, serving' = None, session.missed_pings = MaxMissedPings - 1,
                      Len(toDevice'[c]) > Len(toDevice[c])
               PROVE  Unanswered(c) >= MaxMissedPings
    OBVIOUS
  <2>1. c # None /\ Len(toDevice[c]) \in Nat /\ toDevice'[c] # toDevice[c]
    <3>1. Len(toDevice[c]) \in Nat
      BY <1>1, LenProperties DEF Handshake, Types
    <3> QED BY <3>1, ConnsAssumption
  <2>2. Tick
    <3>1. serving' # serving /\ toDevice' # toDevice
      BY <2>1
    <3>2. ~Device /\ ~Accept /\ ~ReadFails /\ ~Kill /\ ~Interrupt /\ ~Restart /\ ~(UNCHANGED vars)
      BY <3>1 DEF Device, Connect, Announces, Replies, HearsPing, Leaves, Accept, ReadFails, Kill, Interrupt,
                  Restart, vars, server
    <3>3. ~ReadReply
      BY <3>1 DEF ReadReply, Continue
    <3>4. ASSUME ReadHeader PROVE FALSE
      <4>1. ASSUME NEW s, Continue(s) PROVE FALSE
        BY <3>1, <4>1 DEF Continue
      <4> QED BY <3>1, <3>4, <4>1 DEF ReadHeader, handle_info, handle_challenge, handle_ping
    <3> QED BY <1>1, <3>2, <3>3, <3>4 DEF Next, Listen
  <2>3. /\ Counted(session, View(c)) /\ Cardinality(Waiting(toDevice'[c])) = View(c).pings + 1
    <3>1. serving = c /\ View(serving) = View(c)
      OBVIOUS
    <3>2. /\ Counted(session, View(serving))
          /\ Cardinality(Waiting(toDevice'[serving])) = View(serving).pings + 1
      BY <1>1, <2>2, OnTheTimer
    <3> QED BY <3>1, <3>2
  <2>4. IsView(View(c)) /\ View(c).silent = silent[c]
    <3>1. IsView(View(c))
      BY <1>1, ViewType DEF Handshake
    <3> QED BY <3>1 DEF View
  <2> QED BY <2>3, <2>4, WordsAssumption DEF Counted, IsView, Unanswered
<1>2. ASSUME Handshake, [Next]_vars PROVE [\A c \in Conns : Just(c)]_vars
  BY <1>1, <1>2
<1> QED BY <1>2, InOrderAlways, PTL DEF Spec, DroppedForSilence
===============================================================================
