-------------------------- MODULE FtpServerProofs --------------------------
(***************************************************************************)
(* Theorems of FtpServer, for any number of slots, any paths and files,    *)
(* any size of the send buffer and any bound on the uploads.               *)
(***************************************************************************)
EXTENDS FtpServer, FiniteSetTheorems, SequenceTheorems, TLAPS

(***************************************************************************)
(* The inductive invariant.  Between turns nothing is left to handle; with *)
(* no thread every session is closed.                                      *)
(***************************************************************************)
LoopInv ==
    /\ loop # "round" => todo = {}
    /\ loop = "poll" => fresh = {}
    /\ running <=> loop # "none"
    /\ loop \in {"none", "ended"} => \A s \in Slots : sess[s] = Closed

\* While the listening socket is still to be handled nothing has happened since
\* the poll, so every other entry has its client; and what is left of a turn is
\* never of a slot given away in it.
EntryInv ==
    /\ Listening \in todo =>
          fresh = {} /\ \A e \in todo \ {Listening} : sess[e.slot].used
    /\ \A e \in todo \ {Listening} : e.slot \notin fresh

\* NothingLeaks of one session: x is the session, e its piece.
Tidy(x, e) ==
    /\ ~x.used => x = Closed
    /\ x.state = "PARADO" => ~x.listen /\ ~x.data
    /\ ~(x.listen /\ x.data)
    /\ (x.file # NoPath) <=> x.state \in {"ENVIANDO", "RECEBENDO"}
    /\ e # <<>> => x.state = "ENVIANDO"

\* What the client of session x has (g) and the piece on its way (e) are what was
\* read of the file, which is as it was when the transfer began.
Sound(x, e, g, card) ==
    /\ x.state = "ENVIANDO" =>
          /\ card[x.file] \in Seq(Nat) /\ x.at <= Len(card[x.file])
          /\ g \o e = SubSeq(card[x.file], 1, x.at)
    /\ x.state = "ESPERANDO_DATA" => x.at = 0 /\ g = <<>>

\* A file being sent is not being written.
Apart(x, y) ==
    x.state = "ENVIANDO" /\ y.state = "RECEBENDO" => x.file # y.file

SessionsInv ==
    /\ \A s \in Slots : Tidy(sess[s], envio[s]) /\ Sound(sess[s], envio[s], got[s], fs)
    /\ \A s, t \in Slots : Apart(sess[s], sess[t])

IInv == TypeOK /\ LoopInv /\ EntryInv /\ SessionsInv

(***************************************************************************)
(* Pieces of a file.                                                       *)
(***************************************************************************)
LEMMA Slice ==
    ASSUME NEW q \in Seq(Nat), NEW m \in Nat \ {0}, NEW n \in 0..Len(q)
    PROVE  /\ SubSeq(q, m, n) \in Seq(Nat)
           /\ Len(SubSeq(q, m, n)) = IF m <= n THEN n - m + 1 ELSE 0
<1>1. \A i \in m..n : q[i] \in Nat
  <2> TAKE i \in m..n
  <2>1. Len(q) \in Nat /\ i \in 1..Len(q)
    BY LenProperties
  <2> QED BY <2>1, ElementOfSeq
<1>2. m \in Int /\ n \in Int
  OBVIOUS
<1> QED BY <1>1, <1>2, SubSeqProperties

LEMMA PrefixOf ==
    ASSUME NEW q \in Seq(Nat), NEW n \in Nat
    PROVE  /\ Prefix(q, n) \in Seq(Nat) /\ Suffix(q, n) \in Seq(Nat)
           /\ n <= Len(q) => /\ Prefix(q, n) = SubSeq(q, 1, n)
                             /\ Prefix(q, n) \o Suffix(q, n) = q
<1>0. Len(q) \in Nat
  BY LenProperties
<1> DEFINE k == IF n < Len(q) THEN n ELSE Len(q)
<1>1. k \in 0..Len(q) /\ Prefix(q, n) = SubSeq(q, 1, k)
  BY <1>0 DEF Prefix
<1>2. Prefix(q, n) \in Seq(Nat) /\ Suffix(q, n) \in Seq(Nat)
  <2> HIDE DEF k
  <2>1. SubSeq(q, 1, k) \in Seq(Nat)
    BY <1>1, Slice
  <2>2. n + 1 \in Nat \ {0} /\ Len(q) \in 0..Len(q)
    BY <1>0
  <2>3. SubSeq(q, n + 1, Len(q)) \in Seq(Nat)
    BY <2>2, Slice
  <2> QED BY <1>1, <2>1, <2>3 DEF Suffix
<1>3. ASSUME n <= Len(q)
      PROVE  Prefix(q, n) = SubSeq(q, 1, n) /\ Prefix(q, n) \o Suffix(q, n) = q
  <2>1. k = n
    BY <1>0, <1>3
  <2>2. 1 \in 1..Len(q)+1 /\ n \in 1-1..Len(q) /\ Len(q) \in n..Len(q)
    BY <1>0, <1>3
  <2>3. SubSeq(q, 1, n) \o SubSeq(q, n + 1, Len(q)) = SubSeq(q, 1, Len(q))
    BY <2>2, ConcatAdjacentSubSeq
  <2>4. SubSeq(q, 1, Len(q)) = q
    BY SubSeqFull
  <2> QED BY <1>1, <2>1, <2>3, <2>4 DEF Suffix
<1> QED BY <1>2, <1>3

LEMMA Together ==
    ASSUME NEW u \in Seq(Nat), NEW v \in Seq(Nat), NEW w \in Seq(Nat)
    PROVE  (u \o v) \o w = u \o (v \o w)
BY ConcatAssociative

\* The next k units after the first a.
LEMMA NextPiece ==
    ASSUME NEW f \in Seq(Nat), NEW a \in Nat, NEW k \in Nat \ {0}, a + k <= Len(f)
    PROVE  LET piece == SubSeq(f, a + 1, a + k)
           IN /\ piece \in Seq(Nat) /\ Len(piece) = k
              /\ SubSeq(SubSeq(f, a + 1, Len(f)), 1, k) = piece
              /\ SubSeq(f, 1, a) \o piece = SubSeq(f, 1, a + k)
<1>0. Len(f) \in Nat
  BY LenProperties
<1>1. a + 1 \in Nat \ {0} /\ a + k \in 0..Len(f)
  BY <1>0
<1>2. SubSeq(f, a + 1, a + k) \in Seq(Nat) /\ Len(SubSeq(f, a + 1, a + k)) = k
  <2>1. /\ SubSeq(f, a + 1, a + k) \in Seq(Nat)
        /\ Len(SubSeq(f, a + 1, a + k)) = IF a + 1 <= a + k THEN a + k - (a + 1) + 1 ELSE 0
    BY <1>1, Slice
  <2>2. a + 1 <= a + k /\ a + k - (a + 1) + 1 = k
    OBVIOUS
  <2> QED BY <2>1, <2>2
<1>3. SubSeq(SubSeq(f, a + 1, Len(f)), 1, k) = SubSeq(f, a + 1, a + k)
  <2>1. /\ a + 1 \in 1..Len(f) /\ Len(f) \in 1..Len(f)
        /\ 1 \in 1..Len(f) - (a + 1) + 1 /\ k \in 1..Len(f) - (a + 1) + 1
    BY <1>0
  <2>2. SubSeq(SubSeq(f, a + 1, Len(f)), 1, k) = SubSeq(f, (a+1)+1-1, (a+1)+k-1)
    BY <2>1, SubSeqOfSubSeq
  <2>3. (a+1)+1-1 = a + 1 /\ (a+1)+k-1 = a + k
    OBVIOUS
  <2> QED BY <2>2, <2>3
<1>4. SubSeq(f, 1, a) \o SubSeq(f, a + 1, a + k) = SubSeq(f, 1, a + k)
  <2>1. 1 \in 1..Len(f)+1 /\ a \in 1-1..Len(f) /\ a + k \in a..Len(f)
    BY <1>0
  <2> QED BY <2>1, ConcatAdjacentSubSeq
<1> QED BY <1>2, <1>3, <1>4

\* Reading the next piece: with all that was read sent, sent and read go together.
LEMMA ReadOn ==
    ASSUME NEW f \in Seq(Nat), NEW a \in Nat, a <= Len(f),
           NEW g \in Seq(Nat), g \o <<>> = SubSeq(f, 1, a),
           Prefix(SubSeq(f, a + 1, Len(f)), Full) # <<>>
    PROVE  LET p == Prefix(SubSeq(f, a + 1, Len(f)), Full)
           IN /\ p \in Seq(Nat) /\ a + Len(p) \in Nat /\ a + Len(p) <= Len(f)
              /\ g \o p = SubSeq(f, 1, a + Len(p))
<1>0. Len(f) \in Nat /\ Full \in Nat \ {0}
  BY LenProperties, FtpAssumption
<1> DEFINE r == SubSeq(f, a + 1, Len(f))
           k == IF Full < Len(r) THEN Full ELSE Len(r)
           p == Prefix(r, Full)
<1>1. Len(r) = IF a + 1 <= Len(f) THEN Len(f) - (a + 1) + 1 ELSE 0
  BY <1>0, Slice
<1>2. p = SubSeq(r, 1, k) /\ p # <<>>
  BY DEF Prefix
<1> HIDE DEF r, p
<1>3. Len(r) # 0
  <2> SUFFICES ASSUME Len(r) = 0 PROVE FALSE
    OBVIOUS
  <2>1. k = 0
    BY <1>0
  <2>2. SubSeq(r, 1, 0) = <<>>
    BY SubSeqEmpty
  <2> QED BY <2>1, <2>2, <1>2
<1>4. k \in Nat \ {0} /\ a + k <= Len(f)
  BY <1>1, <1>3, <1>0
<1> HIDE DEF k
<1>5. /\ SubSeq(f, a + 1, a + k) \in Seq(Nat) /\ Len(SubSeq(f, a + 1, a + k)) = k
      /\ SubSeq(SubSeq(f, a + 1, Len(f)), 1, k) = SubSeq(f, a + 1, a + k)
      /\ SubSeq(f, 1, a) \o SubSeq(f, a + 1, a + k) = SubSeq(f, 1, a + k)
  BY <1>4, NextPiece
<1>6. p = SubSeq(f, a + 1, a + k) /\ Len(p) = k
  BY <1>2, <1>5 DEF r
<1>7. g = SubSeq(f, 1, a)
  BY ConcatEmptySeq
<1>8. /\ p \in Seq(Nat) /\ a + Len(p) \in Nat /\ a + Len(p) <= Len(f)
      /\ g \o p = SubSeq(f, 1, a + Len(p))
  <2>1. a + Len(p) = a + k /\ a + k \in Nat
    BY <1>4, <1>6
  <2>2. g \o p = SubSeq(f, 1, a + k)
    BY <1>5, <1>6, <1>7
  <2> QED BY <2>1, <2>2, <1>4, <1>5, <1>6
<1> QED BY <1>8 DEF p, r

\* Sending n units of a piece keeps what was sent and what is left together.
LEMMA SendKeeps ==
    ASSUME NEW g \in Seq(Nat), NEW p \in Seq(Nat), NEW n \in 0..Len(p)
    PROVE  /\ g \o Prefix(p, n) \in Seq(Nat) /\ Suffix(p, n) \in Seq(Nat)
           /\ (g \o Prefix(p, n)) \o Suffix(p, n) = g \o p
<1>1. Len(p) \in Nat /\ n \in Nat /\ n <= Len(p)
  BY LenProperties
<1> DEFINE x == Prefix(p, n)  y == Suffix(p, n)
<1>2. x \in Seq(Nat) /\ y \in Seq(Nat) /\ x \o y = p
  BY <1>1, PrefixOf
<1> HIDE DEF x, y
<1>3. (g \o x) \o y = g \o (x \o y)
  BY <1>2, Together
<1>4. g \o x \in Seq(Nat)
  BY <1>2, ConcatProperties
<1> QED BY <1>2, <1>3, <1>4 DEF x, y

\* A file read to its end with nothing on its way has been sent whole.
LEMMA SentWhole ==
    ASSUME NEW f \in Seq(Nat), NEW a \in Nat, a <= Len(f), NEW g \in Seq(Nat),
           g \o <<>> = SubSeq(f, 1, a), SubSeq(f, a + 1, Len(f)) = <<>>
    PROVE  g = f
<1>0. Len(f) \in Nat
  BY LenProperties
<1>1. Len(SubSeq(f, a + 1, Len(f))) = IF a + 1 <= Len(f) THEN Len(f) - (a + 1) + 1 ELSE 0
  BY <1>0, Slice
<1>2. Len(SubSeq(f, a + 1, Len(f))) = 0
  BY EmptySeq
<1>3. a = Len(f)
  BY <1>0, <1>1, <1>2
<1>4. g = SubSeq(f, 1, Len(f))
  BY <1>3, ConcatEmptySeq
<1> QED BY <1>4, SubSeqFull

(***************************************************************************)
(* One session's step.                                                     *)
(***************************************************************************)
Read(p) == \E t \in Slots : sess[t].state = "ENVIANDO" /\ sess[t].file = p
Replies == {"none", "226", "426", "451", "550", "552"}

\* What every command and every piece of a transfer of session s does: the other
\* sessions are left alone, and so is a file another one is reading; the session
\* stays tidy and sound; and a download answered 226 has sent the file.
Effect(s) ==
    /\ sess' \in [Slots -> Session] /\ envio' \in [Slots -> Seq(Nat)]
    /\ got' \in [Slots -> Seq(Nat)] /\ room' \in [Slots -> {0, 1}]
    /\ fs' \in [Paths -> Seq(Nat) \cup {Absent}] /\ reply' \in Replies
    /\ \A t \in Slots \ {s} :
          /\ sess'[t] = sess[t] /\ envio'[t] = envio[t] /\ got'[t] = got[t]
          /\ sess[t].state = "ENVIANDO" => fs'[sess[t].file] = fs[sess[t].file]
          /\ Apart(sess'[s], sess[t]) /\ Apart(sess[t], sess'[s])
    /\ Tidy(sess'[s], envio'[s]) /\ Sound(sess'[s], envio'[s], got'[s], fs')
    /\ sess[s].state = "ENVIANDO" /\ sess'[s].state = "PARADO" /\ reply' = "226"
          => got[s] = fs[sess[s].file]

LEMMA ClosedTyped ==
    /\ Closed \in Session /\ Cardinality(Paths) \in Nat /\ <<>> \in Seq(Nat)
    /\ Tidy(Closed, <<>>)
<1>1. Cardinality(Paths) \in Nat
  BY FtpAssumption, FS_CardinalityType
<1>2. <<>> \in Seq(Nat)
  BY EmptySeq
<1>3. Closed \in Session
  BY <1>1, <1>2 DEF Closed, Session
<1>4. Tidy(Closed, <<>>)
  BY DEF Tidy, Closed
<1> QED BY <1>1, <1>2, <1>3, <1>4

LEMMA IdleTyped ==
    ASSUME TypeOK, NEW s \in Slots
    PROVE  /\ Idle(s) \in Session /\ Tidy(Idle(s), <<>>)
           /\ Idle(s).state = "PARADO" /\ Idle(s).at = 0
<1>1. sess[s] \in Session
  BY DEF TypeOK
<1>2. Idle(s) \in Session
  BY <1>1, ClosedTyped DEF Idle, Session
<1>3. Idle(s).used /\ Idle(s).state = "PARADO" /\ ~Idle(s).listen /\ ~Idle(s).data
      /\ Idle(s).file = NoPath /\ Idle(s).at = 0
  BY DEF Idle, Closed
<1> QED BY <1>2, <1>3 DEF Tidy

\* The file of a session that reads or writes one; a session that does is used.
LEMMA FileOf ==
    ASSUME TypeOK, SessionsInv, NEW s \in Slots
    PROVE  /\ sess[s] \in Session
           /\ sess[s].state \in {"ENVIANDO", "RECEBENDO"} => sess[s].file \in Paths
           /\ sess[s].state # "PARADO" => sess[s].used
           /\ Tidy(sess[s], envio[s]) /\ Sound(sess[s], envio[s], got[s], fs)
           /\ \A t \in Slots : Apart(sess[s], sess[t]) /\ Apart(sess[t], sess[s])
           /\ envio[s] \in Seq(Nat) /\ got[s] \in Seq(Nat)
<1>1. sess[s] \in Session /\ Tidy(sess[s], envio[s])
  BY DEF TypeOK, SessionsInv
<1>2. sess[s].state \in {"ENVIANDO", "RECEBENDO"} => sess[s].file \in Paths
  BY <1>1 DEF Tidy, Session
<1>3. sess[s].state # "PARADO" => sess[s].used
  BY <1>1 DEF Tidy, Closed
<1> QED BY <1>1, <1>2, <1>3 DEF SessionsInv, TypeOK

\* A transfer ends, or PASV prepares for the next.
LEMMA CloseEffect ==
    ASSUME TypeOK, SessionsInv, NEW s \in Slots, NEW y \in Session,
           y.state \in {"PARADO", "ESPERANDO_DATA"}, y.at = 0, Tidy(y, <<>>),
           CloseInto(s, y), reply' \in Replies,
           sess[s].state = "ENVIANDO" /\ y.state = "PARADO" /\ reply' = "226"
               => got[s] = fs[sess[s].file]
    PROVE  Effect(s)
<1>1. /\ sess \in [Slots -> Session] /\ envio \in [Slots -> Seq(Nat)]
      /\ got \in [Slots -> Seq(Nat)] /\ room \in [Slots -> {0, 1}]
      /\ fs \in [Paths -> Seq(Nat) \cup {Absent}]
  BY DEF TypeOK
<1>2. /\ sess' = [sess EXCEPT ![s] = y] /\ envio' = [envio EXCEPT ![s] = <<>>]
      /\ got' = [got EXCEPT ![s] = <<>>] /\ room' = [room EXCEPT ![s] = 1]
  BY DEF CloseInto, BufOf
<1>3. /\ fs' \in [Paths -> Seq(Nat) \cup {Absent}]
      /\ \A p \in Paths : (sess[s].state = "RECEBENDO" /\ p = sess[s].file) \/ fs'[p] = fs[p]
  <2>1. CASE sess[s].state = "RECEBENDO"
    <3>1. PICK n \in 0..Len(sess[s].wrote) :
             fs' = [fs EXCEPT ![sess[s].file] = SubSeq(sess[s].wrote, 1, n)]
      BY <2>1 DEF CloseInto
    <3>2. sess[s].wrote \in Seq(Nat)
      BY FileOf DEF Session
    <3>3. SubSeq(sess[s].wrote, 1, n) \in Seq(Nat)
      BY <3>2, Slice
    <3> QED BY <1>1, <2>1, <3>1, <3>3
  <2>2. CASE sess[s].state # "RECEBENDO"
    BY <1>1, <2>2 DEF CloseInto
  <2> QED BY <2>1, <2>2
<1>4. /\ sess' \in [Slots -> Session] /\ envio' \in [Slots -> Seq(Nat)]
      /\ got' \in [Slots -> Seq(Nat)] /\ room' \in [Slots -> {0, 1}]
  BY <1>1, <1>2, ClosedTyped
<1>5. sess'[s] = y /\ envio'[s] = <<>> /\ got'[s] = <<>>
  BY <1>1, <1>2
<1>6. ASSUME NEW t \in Slots \ {s}
      PROVE  /\ sess'[t] = sess[t] /\ envio'[t] = envio[t] /\ got'[t] = got[t]
             /\ sess[t].state = "ENVIANDO" => fs'[sess[t].file] = fs[sess[t].file]
             /\ Apart(sess'[s], sess[t]) /\ Apart(sess[t], sess'[s])
  <2>1. sess'[t] = sess[t] /\ envio'[t] = envio[t] /\ got'[t] = got[t]
    BY <1>1, <1>2
  <2>2. sess[t].state = "ENVIANDO" => fs'[sess[t].file] = fs[sess[t].file]
    BY <1>3, FileOf DEF Apart
  <2>3. Apart(sess'[s], sess[t]) /\ Apart(sess[t], sess'[s])
    BY <1>5 DEF Apart
  <2> QED BY <2>1, <2>2, <2>3
<1>7. Sound(y, <<>>, <<>>, fs')
  BY DEF Sound
<1> QED BY <1>3, <1>4, <1>5, <1>6, <1>7 DEF Effect

\* A step that leaves the transfers alone and changes only files nobody reads.
LEMMA CardEffect ==
    ASSUME TypeOK, SessionsInv, NEW s \in Slots, NEW f \in Paths \cup {NoPath},
           sess' = [sess EXCEPT ![s].from = f], sess[s].used,
           fs' \in [Paths -> Seq(Nat) \cup {Absent}],
           \A p \in Paths : Read(p) => fs'[p] = fs[p],
           UNCHANGED <<envio, got, room>>, reply' = "none"
    PROVE  Effect(s)
<1>1. /\ sess \in [Slots -> Session] /\ envio \in [Slots -> Seq(Nat)]
      /\ got \in [Slots -> Seq(Nat)] /\ room \in [Slots -> {0, 1}]
  BY DEF TypeOK
<1> DEFINE y == [sess[s] EXCEPT !.from = f]
<1>2. sess' = [sess EXCEPT ![s] = y]
  BY <1>1
<1>3. /\ y \in Session /\ y.used /\ y.state = sess[s].state /\ y.file = sess[s].file
      /\ y.at = sess[s].at /\ y.listen = sess[s].listen /\ y.data = sess[s].data
  BY <1>1 DEF Session
<1> HIDE DEF y
<1>4. sess' \in [Slots -> Session] /\ sess'[s] = y
  BY <1>1, <1>2, <1>3
<1>5. \A t \in Slots : sess[t].state = "ENVIANDO" => fs'[sess[t].file] = fs[sess[t].file]
  BY FileOf DEF Read
<1>6. ASSUME NEW t \in Slots \ {s}
      PROVE  /\ sess'[t] = sess[t]
             /\ Apart(sess'[s], sess[t]) /\ Apart(sess[t], sess'[s])
  <2>1. sess'[t] = sess[t]
    BY <1>1, <1>2
  <2>2. Apart(sess[s], sess[t]) /\ Apart(sess[t], sess[s])
    BY FileOf
  <2> QED BY <1>3, <1>4, <2>1, <2>2 DEF Apart
<1>7. Tidy(y, envio[s])
  BY <1>3, FileOf DEF Tidy
<1>8. Sound(y, envio[s], got[s], fs')
  BY <1>3, <1>5, FileOf DEF Sound
<1>9. /\ envio' = envio /\ got' = got /\ room' = room
      /\ envio' \in [Slots -> Seq(Nat)] /\ got' \in [Slots -> Seq(Nat)]
      /\ room' \in [Slots -> {0, 1}] /\ reply' \in Replies /\ reply' # "226"
  BY <1>1 DEF Replies
<1> QED BY <1>4, <1>5, <1>6, <1>7, <1>8, <1>9 DEF Effect

\* Commands.
LEMMA EndsEffect ==
    ASSUME TypeOK, SessionsInv, NEW s \in Slots, NEW r \in Replies, Ends(s, r),
           sess[s].state = "ENVIANDO" /\ r = "226" => got[s] = fs[sess[s].file]
    PROVE  Effect(s)
<1>1. CloseInto(s, Idle(s)) /\ reply' = r
  BY DEF Ends
<1>2. Idle(s).state \in {"PARADO", "ESPERANDO_DATA"}
  BY IdleTyped
<1> QED BY <1>1, <1>2, IdleTyped, CloseEffect

LEMMA CloseSessionEffect ==
    ASSUME TypeOK, SessionsInv, NEW s \in Slots, CloseSession(s)
    PROVE  Effect(s)
<1>1. CloseInto(s, Closed) /\ reply' = "none"
  BY DEF CloseSession, Unanswered
<1>2. Closed.state = "PARADO" /\ Closed.at = 0 /\ "none" \in Replies
  BY DEF Closed, Replies
<1> QED BY <1>1, <1>2, ClosedTyped, CloseEffect

LEMMA PasvEffect ==
    ASSUME TypeOK, SessionsInv, NEW s \in Slots, Pasv(s)
    PROVE  Effect(s)
<1> DEFINE y == [Idle(s) EXCEPT !.listen = TRUE, !.state = "ESPERANDO_DATA"]
<1>1. reply' = "none" /\ reply' \in Replies
  BY DEF Pasv, Unanswered, Replies
<1>2. CASE CloseInto(s, Idle(s))
  BY <1>1, <1>2, IdleTyped, CloseEffect
<1>3. CASE CloseInto(s, y)
  <2>1. y \in Session /\ y.state = "ESPERANDO_DATA" /\ y.at = 0
    BY IdleTyped DEF Session
  <2>2. y.used /\ ~y.data /\ y.file = NoPath
    BY DEF Idle, Closed
  <2>3. Tidy(y, <<>>)
    BY <2>1, <2>2 DEF Tidy
  <2> HIDE DEF y
  <2> QED BY <1>1, <1>3, <2>1, <2>3, CloseEffect
<1> QED BY <1>2, <1>3 DEF Pasv

\* A transfer begins, in state x, with file p if it has one.
LEMMA StartsEffect ==
    ASSUME TypeOK, SessionsInv, NEW s \in Slots, sess[s].state = "ESPERANDO_DATA",
           NEW y \in Session, Starts(s, y), y.used,
           y.listen = sess[s].listen, y.data = sess[s].data, y.at = sess[s].at,
           \/ y.state = "LISTANDO" /\ y.file = NoPath /\ UNCHANGED fs
           \/ y.state = "ENVIANDO" /\ y.file \in Paths /\ IsFile(y.file) /\ ~Writing(y.file)
              /\ UNCHANGED fs
           \/ y.state = "RECEBENDO" /\ y.file \in Paths /\ ~Open(y.file)
              /\ fs' = [fs EXCEPT ![y.file] = <<>>]
    PROVE  Effect(s)
<1>1. /\ sess \in [Slots -> Session] /\ envio \in [Slots -> Seq(Nat)]
      /\ got \in [Slots -> Seq(Nat)] /\ room \in [Slots -> {0, 1}]
      /\ fs \in [Paths -> Seq(Nat) \cup {Absent}]
  BY DEF TypeOK
<1>2. sess' = [sess EXCEPT ![s] = y] /\ envio' = envio /\ got' = got /\ room' = room
      /\ reply' = "none" /\ reply' \in Replies
  BY DEF Starts, Unanswered, client, Replies
<1>3. sess' \in [Slots -> Session] /\ sess'[s] = y
  BY <1>1, <1>2
<1>4. envio[s] = <<>> /\ got[s] = <<>> /\ sess[s].at = 0 /\ ~(y.listen /\ y.data)
  BY FileOf DEF Tidy, Sound
<1>5. Tidy(y, <<>>)
  BY <1>4, FtpAssumption DEF Tidy
<1>6. fs' \in [Paths -> Seq(Nat) \cup {Absent}]
  BY <1>1, ClosedTyped
<1>7. Sound(y, <<>>, <<>>, fs')
  <2>1. CASE y.state = "ENVIANDO"
    <3>1. fs'[y.file] \in Seq(Nat)
      BY <2>1, <1>1 DEF IsFile
    <3>2. 0 <= Len(fs'[y.file])
      BY <3>1, LenProperties
    <3>3. SubSeq(fs'[y.file], 1, 0) = <<>> /\ <<>> \o <<>> = <<>>
      BY SubSeqEmpty, ClosedTyped, ConcatEmptySeq
    <3> QED BY <2>1, <3>1, <3>2, <3>3, <1>4 DEF Sound
  <2>2. CASE y.state # "ENVIANDO"
    BY <2>2, <1>4 DEF Sound
  <2> QED BY <2>1, <2>2
<1>8. ASSUME NEW t \in Slots \ {s}
      PROVE  /\ sess'[t] = sess[t] /\ envio'[t] = envio[t] /\ got'[t] = got[t]
             /\ sess[t].state = "ENVIANDO" => fs'[sess[t].file] = fs[sess[t].file]
             /\ Apart(sess'[s], sess[t]) /\ Apart(sess[t], sess'[s])
  <2>1. sess'[t] = sess[t] /\ envio'[t] = envio[t] /\ got'[t] = got[t]
    BY <1>1, <1>2
  <2>2. /\ sess[t].state \in {"ENVIANDO", "RECEBENDO"} => t \in Used
        /\ sess[t].state = "ENVIANDO" => sess[t].file \in Paths
    BY FileOf DEF Used
  <2>3. sess[t].state = "ENVIANDO" => fs'[sess[t].file] = fs[sess[t].file]
    BY <2>2, <1>1 DEF Open
  <2>4. Apart(y, sess[t])
    BY <2>2 DEF Apart, Writing
  <2>5. Apart(sess[t], y)
    BY <2>2 DEF Apart, Open
  <2> QED BY <2>1, <2>3, <2>4, <2>5, <1>3
<1>9. envio'[s] = <<>> /\ got'[s] = <<>>
  BY <1>2, <1>4
<1>10. /\ envio' \in [Slots -> Seq(Nat)] /\ got' \in [Slots -> Seq(Nat)]
       /\ room' \in [Slots -> {0, 1}]
  BY <1>1, <1>2
<1> QED BY <1>2, <1>3, <1>5, <1>6, <1>7, <1>8, <1>9, <1>10 DEF Effect

LEMMA ListEffect ==
    ASSUME TypeOK, SessionsInv, NEW s \in Slots, List(s)
    PROVE  Effect(s)
<1> DEFINE n == Cardinality({p \in Paths : fs[p] # Absent})
           y == [sess[s] EXCEPT !.state = "LISTANDO", !.lista = n]
<1>1. sess[s].state = "ESPERANDO_DATA"
  BY DEF List
<1>2. CASE Ends(s, "550")
  BY <1>2, EndsEffect DEF Replies
<1>3. CASE Starts(s, y) /\ UNCHANGED fs
  <2>1. n \in 0..Cardinality(Paths)
    <3>1. {p \in Paths : fs[p] # Absent} \subseteq Paths /\ IsFiniteSet(Paths)
      BY FtpAssumption
    <3>2. /\ IsFiniteSet({p \in Paths : fs[p] # Absent})
          /\ Cardinality({p \in Paths : fs[p] # Absent}) <= Cardinality(Paths)
      BY <3>1, FS_Subset
    <3>3. n \in Nat
      BY <3>2, FS_CardinalityType
    <3> QED BY <3>2, <3>3, ClosedTyped
  <2> HIDE DEF n
  <2>2. /\ sess[s] \in Session /\ sess[s].used /\ sess[s].file = NoPath
    BY <1>1, FileOf DEF Tidy
  <2>3. /\ y \in Session /\ y.used /\ y.state = "LISTANDO" /\ y.file = NoPath
        /\ y.listen = sess[s].listen /\ y.data = sess[s].data /\ y.at = sess[s].at
    BY <2>1, <2>2 DEF Session
  <2> HIDE DEF y
  <2> QED BY <1>1, <1>3, <2>3, StartsEffect
<1> QED BY <1>2, <1>3 DEF List

LEMMA RetrEffect ==
    ASSUME TypeOK, SessionsInv, NEW s \in Slots, NEW p \in Paths, Retr(s, p)
    PROVE  Effect(s)
<1> DEFINE y == [sess[s] EXCEPT !.state = "ENVIANDO", !.file = p]
<1>1. sess[s].state = "ESPERANDO_DATA"
  BY DEF Retr
<1>2. CASE Ends(s, "550")
  BY <1>2, EndsEffect DEF Replies
<1>3. CASE IsFile(p) /\ ~Writing(p) /\ Starts(s, y) /\ UNCHANGED fs
  <2>1. sess[s] \in Session /\ sess[s].used
    BY <1>1, FileOf
  <2>2. /\ y \in Session /\ y.used /\ y.state = "ENVIANDO" /\ y.file = p
        /\ y.listen = sess[s].listen /\ y.data = sess[s].data /\ y.at = sess[s].at
    BY <2>1 DEF Session
  <2> HIDE DEF y
  <2> QED BY <1>1, <1>3, <2>2, StartsEffect
<1> QED BY <1>2, <1>3 DEF Retr

LEMMA StorEffect ==
    ASSUME TypeOK, SessionsInv, NEW s \in Slots, NEW p \in Paths, Stor(s, p)
    PROVE  Effect(s)
<1> DEFINE y == [sess[s] EXCEPT !.state = "RECEBENDO", !.file = p]
<1>1. sess[s].state = "ESPERANDO_DATA"
  BY DEF Stor
<1>2. CASE Ends(s, "550")
  BY <1>2, EndsEffect DEF Replies
<1>3. CASE ~Open(p) /\ Starts(s, y) /\ fs' = [fs EXCEPT ![p] = <<>>]
  <2>1. sess[s] \in Session /\ sess[s].used
    BY <1>1, FileOf
  <2>2. /\ y \in Session /\ y.used /\ y.state = "RECEBENDO" /\ y.file = p
        /\ y.listen = sess[s].listen /\ y.data = sess[s].data /\ y.at = sess[s].at
    BY <2>1 DEF Session
  <2> HIDE DEF y
  <2> QED BY <1>1, <1>3, <2>2, StartsEffect
<1> QED BY <1>2, <1>3 DEF Stor

\* A file somebody reads is open, and is there.
LEMMA ReadIsOpen ==
    ASSUME TypeOK, SessionsInv, NEW p \in Paths, Read(p)
    PROVE  Open(p) /\ IsFile(p)
<1>1. PICK t \in Slots : sess[t].state = "ENVIANDO" /\ sess[t].file = p
  BY DEF Read
<1>2. sess[t].used /\ fs[p] \in Seq(Nat)
  BY <1>1, FileOf DEF Sound
<1> QED BY <1>1, <1>2, FtpAssumption DEF Open, Used, IsFile

LEMMA SameEffect ==
    ASSUME TypeOK, SessionsInv, NEW s \in Slots, sess[s].used,
           UNCHANGED <<sess, envio, got, room>>, reply' = "none",
           fs' \in [Paths -> Seq(Nat) \cup {Absent}],
           \A p \in Paths : Read(p) => fs'[p] = fs[p]
    PROVE  Effect(s)
<1>1. sess[s].from \in Paths \cup {NoPath}
  BY FileOf DEF Session
<1>2. sess' = [sess EXCEPT ![s].from = sess[s].from]
  <2>1. sess \in [Slots -> Session] /\ sess[s] \in Session
    BY DEF TypeOK
  <2>2. [sess[s] EXCEPT !.from = sess[s].from] = sess[s]
    BY <2>1 DEF Session
  <2> QED BY <2>1, <2>2
<1> QED BY <1>1, <1>2, CardEffect

LEMMA DeleEffect ==
    ASSUME TypeOK, SessionsInv, NEW s \in Slots, sess[s].used, NEW p \in Paths, Dele(s, p)
    PROVE  Effect(s)
<1>1. /\ ~Open(p) /\ fs' = [fs EXCEPT ![p] = Absent]
      /\ UNCHANGED <<sess, envio, got, room>> /\ reply' = "none"
  BY DEF Dele, OnCard, Unanswered, client
<1>2. fs \in [Paths -> Seq(Nat) \cup {Absent}]
  BY DEF TypeOK
<1>3. \A q \in Paths : Read(q) => fs'[q] = fs[q]
  BY <1>1, <1>2, ReadIsOpen
<1>4. fs' \in [Paths -> Seq(Nat) \cup {Absent}]
  BY <1>1, <1>2
<1> QED BY <1>1, <1>3, <1>4, SameEffect

LEMMA RnfrEffect ==
    ASSUME TypeOK, SessionsInv, NEW s \in Slots, sess[s].used, NEW p \in Paths, Rnfr(s, p)
    PROVE  Effect(s)
<1>1. /\ sess' = [sess EXCEPT ![s].from = p] /\ fs' = fs
      /\ UNCHANGED <<envio, got, room>> /\ reply' = "none"
  BY DEF Rnfr, Unanswered, pipes, client
<1>2. fs' \in [Paths -> Seq(Nat) \cup {Absent}]
  BY <1>1 DEF TypeOK
<1> QED BY <1>1, <1>2, CardEffect

\* A rename moves nothing that is being read, and replaces nothing.
LEMMA RenameKeeps ==
    ASSUME TypeOK, SessionsInv, NEW a \in Paths, NEW b \in Paths,
           NEW card \in [Paths -> Seq(Nat) \cup {Absent}],
           \A q \in Paths : Read(q) => card[q] = fs[q], Renames(a, b, card)
    PROVE  /\ Renamed(a, b, card) \in [Paths -> Seq(Nat) \cup {Absent}]
           /\ \A q \in Paths : Read(q) => Renamed(a, b, card)[q] = fs[q]
<1>1. CASE a = b
  BY <1>1 DEF Renamed
<1>2. CASE a # b
  <2>1. /\ ~Open(a) /\ card[b] = Absent
        /\ Renamed(a, b, card) = [card EXCEPT ![b] = card[a], ![a] = Absent]
    BY <1>2 DEF Renames, Renamed
  <2>2. ~Read(a) /\ ~Read(b)
    BY <2>1, ReadIsOpen DEF IsFile
  <2> QED BY <2>1, <2>2
<1> QED BY <1>1, <1>2

LEMMA RntoEffect ==
    ASSUME TypeOK, SessionsInv, NEW s \in Slots, sess[s].used, NEW p \in Paths, Rnto(s, p)
    PROVE  Effect(s)
<1> DEFINE a == sess[s].from
           cleared == IF IsFile(p) /\ ~Open(p) THEN [fs EXCEPT ![p] = Absent] ELSE fs
           Card2 == [Paths -> Seq(Nat) \cup {Absent}]
<1>1. fs \in Card2 /\ a \in Paths
  BY FileOf DEF TypeOK, Rnto, Session
<1>2. /\ sess' = [sess EXCEPT ![s].from = NoPath]
      /\ UNCHANGED <<envio, got, room>> /\ reply' = "none"
  BY DEF Rnto, OnCard, Unanswered, client
<1>3. \/ Renames(a, p, fs) /\ fs' = Renamed(a, p, fs)
      \/ Renames(a, p, cleared) /\ fs' = Renamed(a, p, cleared)
      \/ fs' = cleared
  BY DEF Rnto, OnCard
<1>4. cleared \in Card2 /\ \A q \in Paths : Read(q) => cleared[q] = fs[q]
  BY <1>1, ReadIsOpen
<1> HIDE DEF cleared, a
<1>5. fs' \in Card2 /\ \A q \in Paths : Read(q) => fs'[q] = fs[q]
  <2>1. CASE Renames(a, p, fs) /\ fs' = Renamed(a, p, fs)
    BY <2>1, <1>1, RenameKeeps
  <2>2. CASE Renames(a, p, cleared) /\ fs' = Renamed(a, p, cleared)
    BY <2>2, <1>1, <1>4, RenameKeeps
  <2>3. CASE fs' = cleared
    BY <2>3, <1>4
  <2> QED BY <1>3, <2>1, <2>2, <2>3
<1> QED BY <1>2, <1>5, CardEffect

LEMMA AnswerEffect ==
    ASSUME TypeOK, SessionsInv, NEW s \in Slots, sess[s].used, Answer(s)
    PROVE  Effect(s)
<1>1. UNCHANGED <<sess, envio, got, room>> /\ reply' = "none" /\ fs' = fs
  BY DEF Answer, Unanswered, pipes, client
<1>2. fs' \in [Paths -> Seq(Nat) \cup {Absent}]
  BY <1>1 DEF TypeOK
<1> QED BY <1>1, <1>2, SameEffect

LEMMA CommandEffect ==
    ASSUME TypeOK, SessionsInv, NEW s \in Slots, sess[s].used, Command(s)
    PROVE  Effect(s)
BY PasvEffect, ListEffect, CloseSessionEffect, AnswerEffect, RetrEffect, StorEffect,
   DeleEffect, RnfrEffect, RntoEffect DEF Command

\* One piece of a transfer.
LEMMA SendPieceEffect ==
    ASSUME TypeOK, SessionsInv, NEW s \in Slots, sess[s].state = "ENVIANDO", SendPiece(s)
    PROVE  Effect(s)
<1> DEFINE f == fs[sess[s].file]
           a == sess[s].at
           p == Piece(s)
           b == ReadTo(s)
<1>1. /\ sess \in [Slots -> Session] /\ envio \in [Slots -> Seq(Nat)]
      /\ got \in [Slots -> Seq(Nat)] /\ room \in [Slots -> {0, 1}]
      /\ fs \in [Paths -> Seq(Nat) \cup {Absent}]
  BY DEF TypeOK
<1>2. /\ sess[s] \in Session /\ sess[s].file \in Paths /\ sess[s].used
      /\ Tidy(sess[s], envio[s]) /\ envio[s] \in Seq(Nat) /\ got[s] \in Seq(Nat)
  BY FileOf
<1>3. f \in Seq(Nat) /\ a \in Nat /\ a <= Len(f) /\ got[s] \o envio[s] = SubSeq(f, 1, a)
  BY <1>2, FileOf DEF Sound, Session
<1>4. /\ p = IF envio[s] # <<>> THEN envio[s] ELSE Prefix(SubSeq(f, a + 1, Len(f)), Full)
      /\ b = a + (IF envio[s] # <<>> THEN 0 ELSE Len(p)) /\ p # <<>>
  BY DEF Piece, Rest, BufOf, ReadTo, SendPiece
<1>5. PICK n \in (IF room[s] = 1 THEN 1..Len(p) ELSE {0}) :
         /\ Sends(s, n)
         /\ room' = [room EXCEPT ![s] = IF n < Len(p) THEN 0 ELSE @]
  BY DEF SendPiece
<1> DEFINE u == Prefix(p, n)  v == Suffix(p, n)
<1>6. /\ sess' = [sess EXCEPT ![s].at = b] /\ envio' = [envio EXCEPT ![s] = v]
      /\ got' = [got EXCEPT ![s] = @ \o u] /\ reply' = "none" /\ fs' = fs
  BY <1>5 DEF Sends, BufOf, Unanswered
<1> HIDE DEF p, b, f, a
<1>7. p \in Seq(Nat) /\ b \in Nat /\ b <= Len(f) /\ got[s] \o p = SubSeq(f, 1, b)
  <2>1. CASE envio[s] # <<>>
    <3>1. p = envio[s] /\ b = a + 0
      BY <2>1, <1>4
    <3>2. b = a
      BY <3>1, <1>3
    <3> QED BY <3>1, <3>2, <1>2, <1>3
  <2>2. CASE envio[s] = <<>>
    <3> DEFINE g == got[s]
    <3>1. /\ f \in Seq(Nat) /\ a \in Nat /\ a <= Len(f)
          /\ g \in Seq(Nat) /\ g \o <<>> = SubSeq(f, 1, a)
          /\ p = Prefix(SubSeq(f, a + 1, Len(f)), Full) /\ b = a + Len(p)
          /\ Prefix(SubSeq(f, a + 1, Len(f)), Full) # <<>>
      BY <2>2, <1>2, <1>3, <1>4
    <3> HIDE DEF g
    <3>2. /\ p \in Seq(Nat) /\ a + Len(p) \in Nat /\ a + Len(p) <= Len(f)
          /\ g \o p = SubSeq(f, 1, a + Len(p))
      BY <3>1, ReadOn
    <3> QED BY <3>1, <3>2 DEF g
  <2> QED BY <2>1, <2>2
<1>8. n \in 0..Len(p)
  BY <1>7, LenProperties
<1>9. /\ got[s] \o u \in Seq(Nat) /\ v \in Seq(Nat)
      /\ (got[s] \o u) \o v = SubSeq(f, 1, b)
  <2> DEFINE g == got[s]
  <2>1. g \in Seq(Nat) /\ p \in Seq(Nat) /\ g \o p = SubSeq(f, 1, b)
    BY <1>2, <1>7
  <2> HIDE DEF g
  <2>2. /\ g \o Prefix(p, n) \in Seq(Nat) /\ Suffix(p, n) \in Seq(Nat)
        /\ (g \o Prefix(p, n)) \o Suffix(p, n) = g \o p
    BY <2>1, <1>8, SendKeeps
  <2> QED BY <2>1, <2>2 DEF g
<1> HIDE DEF u, v
<1> DEFINE y == [sess[s] EXCEPT !.at = b]
<1>10. /\ y \in Session /\ y.used /\ y.state = "ENVIANDO" /\ y.file = sess[s].file
       /\ y.at = b /\ y.listen = sess[s].listen /\ y.data = sess[s].data
  BY <1>2, <1>7 DEF Session
<1>11. sess' = [sess EXCEPT ![s] = y]
  BY <1>1, <1>6
<1> HIDE DEF y
<1>12. /\ sess' \in [Slots -> Session] /\ sess'[s] = y
       /\ envio' \in [Slots -> Seq(Nat)] /\ envio'[s] = v
       /\ got' \in [Slots -> Seq(Nat)] /\ got'[s] = got[s] \o u
       /\ room' \in [Slots -> {0, 1}] /\ fs' \in [Paths -> Seq(Nat) \cup {Absent}]
       /\ reply' \in Replies
  BY <1>1, <1>5, <1>6, <1>9, <1>10, <1>11 DEF Replies
<1>13. Tidy(sess'[s], envio'[s])
  BY <1>2, <1>10, <1>12 DEF Tidy
<1>14. Sound(sess'[s], envio'[s], got'[s], fs')
  <2>1. Sound(y, v, got[s] \o u, fs)
    BY <1>3, <1>7, <1>9, <1>10 DEF Sound, f
  <2> QED BY <2>1, <1>6, <1>12
<1>15. \A t \in Slots \ {s} :
          /\ sess'[t] = sess[t] /\ envio'[t] = envio[t] /\ got'[t] = got[t]
          /\ sess[t].state = "ENVIANDO" => fs'[sess[t].file] = fs[sess[t].file]
          /\ Apart(sess'[s], sess[t]) /\ Apart(sess[t], sess'[s])
  <2> TAKE t \in Slots \ {s}
  <2>1. sess'[t] = sess[t] /\ envio'[t] = envio[t] /\ got'[t] = got[t]
    BY <1>1, <1>6, <1>11
  <2>2. Apart(sess[s], sess[t]) /\ Apart(sess[t], sess[s])
    BY FileOf
  <2>3. Apart(y, sess[t]) /\ Apart(sess[t], y)
    BY <2>2, <1>10 DEF Apart
  <2> QED BY <2>1, <2>3, <1>6, <1>12
<1>16. reply' # "226"
  BY <1>6
<1> QED BY <1>12, <1>13, <1>14, <1>15, <1>16 DEF Effect

LEMMA SendingEffect ==
    ASSUME TypeOK, SessionsInv, NEW s \in Slots, Sending(s)
    PROVE  Effect(s)
<1>1. sess[s].state = "ENVIANDO"
  BY DEF Sending
<1>2. CASE SendPiece(s)
  BY <1>1, <1>2, SendPieceEffect
<1>3. CASE SendEof(s)
  <2>1. envio[s] = <<>> /\ Rest(s) = <<>> /\ Ends(s, "226")
    BY <1>3 DEF SendEof, BufOf
  <2>2. /\ fs[sess[s].file] \in Seq(Nat) /\ sess[s].at \in Nat
        /\ sess[s].at <= Len(fs[sess[s].file]) /\ got[s] \in Seq(Nat)
        /\ got[s] \o <<>> = SubSeq(fs[sess[s].file], 1, sess[s].at)
    BY <1>1, <2>1, FileOf DEF Sound, Session
  <2>3. got[s] = fs[sess[s].file]
    BY <2>1, <2>2, SentWhole DEF Rest
  <2> QED BY <2>1, <2>3, EndsEffect DEF Replies
<1>4. CASE SendFails(s)
  <2>1. Ends(s, "451")
    BY <1>4 DEF SendFails
  <2> QED BY <2>1, EndsEffect DEF Replies
<1> QED BY <1>2, <1>3, <1>4 DEF Sending

\* A step that changes neither the file of a transfer nor what was read of it.
LEMMA RestEffect ==
    ASSUME TypeOK, SessionsInv, NEW s \in Slots, NEW y \in Session,
           sess' = [sess EXCEPT ![s] = y], UNCHANGED <<envio, got, fs>>,
           room' \in [Slots -> {0, 1}],
           reply' = "none", y.used, y.state = sess[s].state, y.file = sess[s].file,
           y.at = sess[s].at, ~(y.listen /\ y.data),
           y.state = "PARADO" => ~y.listen /\ ~y.data
    PROVE  Effect(s)
<1>1. /\ sess \in [Slots -> Session] /\ envio \in [Slots -> Seq(Nat)]
      /\ got \in [Slots -> Seq(Nat)] /\ room \in [Slots -> {0, 1}]
      /\ fs \in [Paths -> Seq(Nat) \cup {Absent}]
  BY DEF TypeOK
<1>2. sess' \in [Slots -> Session] /\ sess'[s] = y
  BY <1>1
<1>3. Tidy(y, envio[s]) /\ Sound(y, envio[s], got[s], fs)
  BY FileOf DEF Tidy, Sound
<1>4. ASSUME NEW t \in Slots \ {s}
      PROVE  sess'[t] = sess[t] /\ Apart(y, sess[t]) /\ Apart(sess[t], y)
  <2>1. Apart(sess[s], sess[t]) /\ Apart(sess[t], sess[s])
    BY FileOf
  <2> QED BY <1>1, <2>1 DEF Apart
<1> QED BY <1>1, <1>2, <1>3, <1>4 DEF Effect, Replies

LEMMA ListingEffect ==
    ASSUME TypeOK, SessionsInv, NEW s \in Slots, Listing(s)
    PROVE  Effect(s)
<1>1. sess[s].state = "LISTANDO" /\ sess[s].used
  BY FileOf DEF Listing
<1>2. CASE Ends(s, "226")
  BY <1>1, <1>2, EndsEffect DEF Replies
<1>3. ASSUME sess[s].lista > 0,
             NEW n \in IF room[s] = 1 THEN 1..sess[s].lista ELSE {0}, SendsLines(s, n)
      PROVE  Effect(s)
  <2> DEFINE y == [sess[s] EXCEPT !.lista = @ - n]
  <2>1. /\ sess[s] \in Session /\ sess \in [Slots -> Session]
        /\ ~(sess[s].listen /\ sess[s].data)
    BY FileOf DEF TypeOK, Tidy
  <2>2. sess[s].lista - n \in 0..Cardinality(Paths)
    <3>1. sess[s].lista \in Nat /\ n \in 0..sess[s].lista
      BY <1>3, <2>1, ClosedTyped DEF Session
    <3> QED BY <2>1, <3>1, ClosedTyped DEF Session
  <2>3. /\ y \in Session /\ y.used /\ y.state = sess[s].state /\ y.file = sess[s].file
        /\ y.at = sess[s].at /\ y.listen = sess[s].listen /\ y.data = sess[s].data
    BY <1>1, <2>1, <2>2 DEF Session
  <2>4. sess' = [sess EXCEPT ![s] = y]
    BY <1>3, <2>1 DEF SendsLines
  <2>5. UNCHANGED <<envio, got, fs>> /\ reply' = "none" /\ room' \in [Slots -> {0, 1}]
    BY <1>3 DEF SendsLines, Unanswered, TypeOK
  <2> HIDE DEF y
  <2> QED BY <1>1, <2>1, <2>3, <2>4, <2>5, RestEffect
<1> QED BY <1>2, <1>3 DEF Listing

LEMMA ReceivingEffect ==
    ASSUME TypeOK, SessionsInv, NEW s \in Slots, Receiving(s)
    PROVE  Effect(s)
<1>1. sess[s].state = "RECEBENDO" /\ sess[s].used
  BY FileOf DEF Receiving
<1>2. CASE Ends(s, "226") \/ Ends(s, "552")
  BY <1>1, <1>2, EndsEffect DEF Replies
<1>3. CASE /\ sess' = [sess EXCEPT ![s].wrote = Append(@, Sent)]
           /\ Unanswered /\ UNCHANGED pipes
  <2> DEFINE y == [sess[s] EXCEPT !.wrote = Append(@, Sent)]
  <2>1. /\ sess[s] \in Session /\ sess \in [Slots -> Session]
        /\ ~(sess[s].listen /\ sess[s].data)
    BY FileOf DEF TypeOK, Tidy
  <2>2. Append(sess[s].wrote, Sent) \in Seq(Nat)
    BY <2>1, AppendProperties DEF Session, Sent
  <2>3. /\ y \in Session /\ y.used /\ y.state = sess[s].state /\ y.file = sess[s].file
        /\ y.at = sess[s].at /\ y.listen = sess[s].listen /\ y.data = sess[s].data
    BY <1>1, <2>1, <2>2 DEF Session
  <2>4. sess' = [sess EXCEPT ![s] = y]
    BY <1>3, <2>1
  <2>5. UNCHANGED <<envio, got, fs>> /\ reply' = "none" /\ room' \in [Slots -> {0, 1}]
    BY <1>3 DEF Unanswered, pipes, client, TypeOK
  <2> HIDE DEF y
  <2> QED BY <1>1, <2>1, <2>3, <2>4, <2>5, RestEffect
<1> QED BY <1>2, <1>3 DEF Receiving

LEMMA ConnectedEffect ==
    ASSUME TypeOK, SessionsInv, NEW s \in Slots, sess[s].used, Connected(s)
    PROVE  Effect(s)
<1> DEFINE y == [sess[s] EXCEPT !.listen = FALSE, !.data = TRUE]
<1>1. /\ sess[s] \in Session /\ sess \in [Slots -> Session] /\ sess[s].state # "PARADO"
      /\ UNCHANGED <<envio, got, fs>> /\ reply' = "none" /\ room' \in [Slots -> {0, 1}]
  BY FileOf DEF TypeOK, Tidy, Connected, Unanswered, pipes, client
<1>2. /\ y \in Session /\ y.used /\ y.state = sess[s].state /\ y.file = sess[s].file
      /\ y.at = sess[s].at /\ ~y.listen
  BY <1>1 DEF Session
<1>3. sess' = [sess EXCEPT ![s] = y]
  BY <1>1 DEF Connected
<1> HIDE DEF y
<1> QED BY <1>1, <1>2, <1>3, RestEffect

LEMMA DataEffect ==
    ASSUME TypeOK, SessionsInv, NEW s \in Slots, Data(s)
    PROVE  Effect(s)
BY AnswerEffect, ConnectedEffect, SendingEffect, ListingEffect, ReceivingEffect
   DEF Data, Nothing

LEMMA BrokenEffect ==
    ASSUME TypeOK, SessionsInv, NEW s \in Slots, Broken(s)
    PROVE  Effect(s)
BY EndsEffect DEF Broken, Replies

(***************************************************************************)
(* The loop.                                                               *)
(***************************************************************************)

\* The first free slot: the session that is accepted is an empty one in use.
LEMMA AcceptEffect ==
    ASSUME TypeOK, SessionsInv, NEW s \in Slots, ~sess[s].used,
           sess' = [sess EXCEPT ![s] = [Closed EXCEPT !.used = TRUE]],
           Unanswered, UNCHANGED pipes
    PROVE  Effect(s)
<1> DEFINE y == [Closed EXCEPT !.used = TRUE]
<1>1. sess[s] = Closed
  BY FileOf DEF Tidy
<1>2. /\ y \in Session /\ y.used /\ y.state = sess[s].state /\ y.file = sess[s].file
      /\ y.at = sess[s].at /\ ~y.listen /\ ~y.data
  <2>1. y \in Session
    BY ClosedTyped DEF Session
  <2>2. y.used /\ y.state = "PARADO" /\ y.file = NoPath /\ y.at = 0 /\ ~y.listen /\ ~y.data
    BY DEF Closed
  <2>3. Closed.state = "PARADO" /\ Closed.file = NoPath /\ Closed.at = 0
    BY DEF Closed
  <2> QED BY <1>1, <2>1, <2>2, <2>3
<1>3. UNCHANGED <<envio, got, fs>> /\ reply' = "none" /\ room' \in [Slots -> {0, 1}]
  BY DEF Unanswered, pipes, client, TypeOK
<1>4. sess' = [sess EXCEPT ![s] = y]
  OBVIOUS
<1> HIDE DEF y
<1> QED BY <1>2, <1>3, <1>4, RestEffect

\* A session's step keeps every session tidy and sound.
LEMMA EffectKeeps ==
    ASSUME TypeOK, SessionsInv, NEW s \in Slots, Effect(s)
    PROVE  SessionsInv'
<1>1. ASSUME NEW t \in Slots
      PROVE  Tidy(sess'[t], envio'[t]) /\ Sound(sess'[t], envio'[t], got'[t], fs')
  <2>1. CASE t = s
    BY <2>1 DEF Effect
  <2>2. CASE t # s
    <3>1. /\ sess'[t] = sess[t] /\ envio'[t] = envio[t] /\ got'[t] = got[t]
          /\ sess[t].state = "ENVIANDO" => fs'[sess[t].file] = fs[sess[t].file]
      BY <2>2 DEF Effect
    <3>2. Tidy(sess[t], envio[t]) /\ Sound(sess[t], envio[t], got[t], fs)
      BY FileOf
    <3>3. Sound(sess[t], envio[t], got[t], fs')
      BY <3>1, <3>2 DEF Sound
    <3> QED BY <3>1, <3>2, <3>3
  <2> QED BY <2>1, <2>2
<1>2. ASSUME NEW t \in Slots, NEW u \in Slots
      PROVE  Apart(sess'[t], sess'[u])
  <2>1. CASE t = u
    BY <2>1 DEF Apart
  <2>2. CASE t # u /\ t = s
    BY <2>2 DEF Effect
  <2>3. CASE t # u /\ u = s
    BY <2>3 DEF Effect
  <2>4. CASE t # s /\ u # s
    BY <2>4, FileOf DEF Effect
  <2> QED BY <2>1, <2>2, <2>3, <2>4
<1> QED BY <1>1, <1>2 DEF SessionsInv

\* All sessions closed are tidy and sound.
LEMMA ClosedKeeps ==
    ASSUME AllClosed
    PROVE  /\ sess' \in [Slots -> Session] /\ envio' \in [Slots -> Seq(Nat)]
           /\ got' \in [Slots -> Seq(Nat)] /\ room' \in [Slots -> {0, 1}]
           /\ SessionsInv' /\ \A s \in Slots : sess'[s] = Closed
<1>1. /\ sess' \in [Slots -> Session] /\ envio' \in [Slots -> Seq(Nat)]
      /\ got' \in [Slots -> Seq(Nat)] /\ room' \in [Slots -> {0, 1}]
  BY ClosedTyped DEF AllClosed
<1>2. \A s \in Slots : sess'[s] = Closed /\ envio'[s] = <<>>
  BY DEF AllClosed
<1>3. Tidy(Closed, <<>>) /\ Closed.state = "PARADO"
  BY ClosedTyped DEF Closed
<1>4. \A g, card : Sound(Closed, <<>>, g, card)
  BY <1>3 DEF Sound
<1>5. Apart(Closed, Closed)
  BY <1>3 DEF Apart
<1> QED BY <1>1, <1>2, <1>3, <1>4, <1>5 DEF SessionsInv

\* The listening socket comes first in a turn.
LEMMA ListeningFirst ==
    ASSUME NEW s \in Slots, Turn(CtrlOf(s)) \/ Turn(DataOf(s))
    PROVE  Listening \notin todo /\ loop = "round"
<1>1. s \in Nat /\ s >= 1
  BY FtpAssumption, FS_CardinalityType
<1>2. Place(Listening) = 0 /\ Place(CtrlOf(s)) = 2 * s /\ Place(DataOf(s)) = 2 * s + 1
  BY <1>1 DEF Place, Listening, CtrlOf, DataOf
<1>3. CASE Turn(CtrlOf(s))
  BY <1>1, <1>2, <1>3 DEF Turn
<1>4. CASE Turn(DataOf(s))
  BY <1>1, <1>2, <1>4 DEF Turn
<1> QED BY <1>3, <1>4

\* The steps of one session that the loop takes.
Serves(s) ==
    /\ Turn(CtrlOf(s)) \/ Turn(DataOf(s))
    /\ Handled(CtrlOf(s)) \/ Handled(DataOf(s))
    /\ SameRound /\ UNCHANGED fresh
    /\ Effect(s)

LEMMA ServesCases ==
    ASSUME TypeOK, SessionsInv, NEW s \in Slots, Control(s) \/ Data(s) \/ Broken(s)
    PROVE  Serves(s)
<1>1. CASE Control(s)
  BY <1>1, CommandEffect DEF Control, Serves
<1>2. CASE Data(s)
  <2>1. Handled(DataOf(s))
    BY <1>2 DEF Data, Nothing, Connected, Sending, SendPiece, Listing, Receiving
  <2> QED BY <1>2, <2>1, DataEffect DEF Data, Serves
<1>3. CASE Broken(s)
  BY <1>3, BrokenEffect DEF Broken, Serves
<1> QED BY <1>1, <1>2, <1>3

\* After an entry that is not the listening socket the rest of the turn is as it
\* was.
LEMMA RestOfTurn ==
    ASSUME TypeOK, LoopInv, EntryInv, NEW s \in Slots, Turn(CtrlOf(s)) \/ Turn(DataOf(s)),
           Handled(CtrlOf(s)) \/ Handled(DataOf(s)), SameRound, UNCHANGED fresh
    PROVE  LoopInv' /\ EntryInv' /\ todo' \subseteq todo
<1>1. Listening \notin todo /\ loop = "round"
  BY ListeningFirst
<1>2. todo' \subseteq todo
  BY DEF Handled
<1>3. loop' = "round" /\ running' = running /\ running
  BY <1>1 DEF SameRound, LoopInv
<1>4. LoopInv'
  BY <1>3 DEF LoopInv
<1>5. EntryInv'
  BY <1>1, <1>2 DEF EntryInv
<1> QED BY <1>2, <1>4, <1>5

\* The server starts with every session closed and its screen shut.
THEOREM InitInv == Init => IInv
<1> SUFFICES ASSUME Init PROVE IInv
  OBVIOUS
<1>1. TypeOK
  BY ClosedTyped, FtpAssumption DEF Init, TypeOK
<1>2. LoopInv /\ EntryInv
  BY DEF Init, LoopInv, EntryInv
<1>3. Tidy(Closed, <<>>) /\ Closed.state = "PARADO"
  BY ClosedTyped DEF Closed
<1>4. \A g, card : Sound(Closed, <<>>, g, card)
  BY <1>3 DEF Sound
<1>5. Apart(Closed, Closed)
  BY <1>3 DEF Apart
<1>6. SessionsInv
  BY <1>3, <1>4, <1>5 DEF SessionsInv, Init
<1> QED BY <1>1, <1>2, <1>6 DEF IInv

LEMMA PollKeeps ==
    ASSUME IInv, Poll
    PROVE  IInv'
<1>1. PICK a \in BOOLEAN, C \in SUBSET Served, D \in SUBSET Watched :
         todo' = (IF a THEN {Listening} ELSE {})
                     \cup {CtrlOf(s) : s \in C} \cup {DataOf(s) : s \in D}
  BY DEF Poll
<1>2. /\ loop = "poll" /\ loop' = "round" /\ reply' = "none" /\ running' = running
      /\ stop' = stop /\ fresh' = fresh /\ sess' = sess /\ envio' = envio /\ fs' = fs
      /\ room' = room /\ got' = got /\ fresh = {} /\ running
  BY DEF Poll, Unanswered, pipes, client, IInv, LoopInv
<1>3. \A s \in C \cup D : s \in Slots /\ sess[s].used
  BY DEF Served, Watched, Used
<1>4. \A e \in todo' \ {Listening} :
         /\ e \in [kind : {"ctrl", "data"}, slot : Slots]
         /\ sess[e.slot].used
  BY <1>1, <1>3 DEF CtrlOf, DataOf
<1>5. TypeOK'
  BY <1>2, <1>4 DEF IInv, TypeOK
<1>6. LoopInv'
  BY <1>2 DEF LoopInv
<1>7. EntryInv'
  BY <1>2, <1>4 DEF EntryInv
<1>8. SessionsInv'
  BY <1>2 DEF IInv, SessionsInv
<1> QED BY <1>5, <1>6, <1>7, <1>8 DEF IInv

LEMMA AcceptKeeps ==
    ASSUME IInv, Accept
    PROVE  IInv' /\ (sess' = sess \/ \E s \in Slots : Effect(s))
<1> DEFINE free == {s \in 1..MaxSessions : ~sess[s].used}
<1>1. /\ loop = "round" /\ Listening \in todo /\ todo' = todo \ {Listening}
      /\ running' = running /\ stop' = stop /\ loop' = loop /\ reply' = "none"
      /\ envio' = envio /\ fs' = fs /\ room' = room /\ got' = got
      /\ Unanswered /\ UNCHANGED pipes
  BY DEF Accept, Turn, Handled, SameRound, Unanswered, pipes, client
<1>2. LoopInv'
  BY <1>1 DEF IInv, LoopInv
<1>3. fresh = {} /\ \A e \in todo' : e \in todo \ {Listening} /\ sess[e.slot].used
  BY <1>1 DEF IInv, EntryInv
<1>4. CASE fresh' = fresh /\ sess' = sess
  <2>1. TypeOK'
    BY <1>1, <1>4 DEF IInv, TypeOK
  <2>2. EntryInv'
    BY <1>1, <1>3, <1>4 DEF EntryInv
  <2>3. SessionsInv'
    BY <1>1, <1>4 DEF IInv, SessionsInv
  <2> QED BY <1>2, <1>4, <2>1, <2>2, <2>3 DEF IInv
<1>5. CASE \E s \in free :
              /\ sess' = [sess EXCEPT ![s] = [Closed EXCEPT !.used = TRUE]]
              /\ fresh' = fresh \cup {s}
  <2>1. PICK s \in free :
              /\ sess' = [sess EXCEPT ![s] = [Closed EXCEPT !.used = TRUE]]
              /\ fresh' = fresh \cup {s}
    BY <1>5
  <2>2. s \in Slots /\ ~sess[s].used
    BY FtpAssumption, FS_CardinalityType
  <2>3. Effect(s)
    BY <1>1, <2>1, <2>2, AcceptEffect DEF IInv
  <2>4. TypeOK'
    BY <1>1, <2>1, <2>2, <2>3 DEF IInv, TypeOK, Effect
  <2>5. EntryInv'
    BY <1>1, <1>3, <2>1, <2>2 DEF EntryInv
  <2>6. SessionsInv'
    BY <2>2, <2>3, EffectKeeps DEF IInv
  <2> QED BY <1>2, <2>2, <2>3, <2>4, <2>5, <2>6 DEF IInv
<1> QED BY <1>4, <1>5 DEF Accept

LEMMA ServesKeeps ==
    ASSUME IInv, NEW s \in Slots, Serves(s)
    PROVE  IInv'
<1>1. LoopInv' /\ EntryInv' /\ todo' \subseteq todo
  BY RestOfTurn DEF IInv, Serves
<1>2. SessionsInv'
  BY EffectKeeps DEF IInv, Serves
<1>3. TypeOK'
  BY <1>1 DEF IInv, TypeOK, Serves, SameRound, Effect, Replies
<1> QED BY <1>1, <1>2, <1>3 DEF IInv

LEMMA GoneKeeps ==
    ASSUME IInv, NEW s \in Slots, Gone(s)
    PROVE  IInv'
<1>1. /\ Turn(CtrlOf(s)) \/ Turn(DataOf(s))
      /\ Handled(CtrlOf(s)) \/ Handled(DataOf(s))
      /\ SameRound /\ fresh' = fresh /\ sess' = sess /\ envio' = envio /\ fs' = fs
      /\ room' = room /\ got' = got /\ reply' = "none"
  BY DEF Gone, Unanswered, pipes, client
<1>2. LoopInv' /\ EntryInv' /\ todo' \subseteq todo
  BY <1>1, RestOfTurn DEF IInv
<1>3. SessionsInv'
  BY <1>1 DEF IInv, SessionsInv
<1>4. TypeOK'
  BY <1>1, <1>2 DEF IInv, TypeOK, SameRound
<1> QED BY <1>2, <1>3, <1>4 DEF IInv

LEMMA EndedKeeps ==
    ASSUME IInv, Ended
    PROVE  IInv'
<1>1. /\ loop = "poll" /\ loop' = "ended" /\ AllClosed /\ reply' = "none"
      /\ running' = running /\ stop' = stop /\ todo' = todo /\ fresh' = fresh
      /\ todo = {} /\ running
  BY DEF Ended, Unanswered, IInv, LoopInv
<1>2. fs' \in [Paths -> Seq(Nat) \cup {Absent}]
  <2> DEFINE W == {s \in Slots : sess[s].state = "RECEBENDO"}
  <2>1. PICK cut \in [W -> 0..MaxUpload] :
           fs' = [p \in Paths |->
              IF \E s \in DOMAIN cut : sess[s].file = p
              THEN LET s == CHOOSE x \in DOMAIN cut : sess[x].file = p
                   IN Prefix(sess[s].wrote, cut[s])
              ELSE fs[p]]
    BY DEF Ended
  <2>2. \A s \in W : Prefix(sess[s].wrote, cut[s]) \in Seq(Nat)
    <3> TAKE s \in W
    <3>1. sess[s].wrote \in Seq(Nat) /\ cut[s] \in Nat
      BY FtpAssumption DEF IInv, TypeOK, Session
    <3> QED BY <3>1, PrefixOf
  <2>3. ASSUME NEW p \in Paths PROVE fs'[p] \in Seq(Nat) \cup {Absent}
    <3>1. CASE \E s \in DOMAIN cut : sess[s].file = p
      <4> DEFINE x == CHOOSE x \in DOMAIN cut : sess[x].file = p
      <4>1. x \in W
        BY <3>1
      <4>2. fs'[p] = Prefix(sess[x].wrote, cut[x])
        BY <2>1, <3>1
      <4> HIDE DEF x
      <4> QED BY <2>2, <4>1, <4>2
    <3>2. CASE ~ \E s \in DOMAIN cut : sess[s].file = p
      BY <2>1, <3>2 DEF IInv, TypeOK
    <3> QED BY <3>1, <3>2
  <2>4. fs' = [p \in Paths |-> fs'[p]]
    BY <2>1
  <2> QED BY <2>3, <2>4
<1>3. TypeOK'
  BY <1>1, <1>2, ClosedKeeps DEF IInv, TypeOK
<1>4. LoopInv'
  BY <1>1, ClosedKeeps DEF LoopInv
<1>5. EntryInv'
  BY <1>1 DEF EntryInv
<1> QED BY <1>1, <1>3, <1>4, <1>5, ClosedKeeps DEF IInv

LEMMA StartKeeps ==
    ASSUME IInv, Start
    PROVE  IInv'
<1>1. /\ running' = TRUE /\ stop' = FALSE /\ loop' = "poll" /\ todo' = {} /\ fresh' = {}
      /\ AllClosed /\ fs' = fs /\ reply' = reply
  BY DEF Start
<1>2. TypeOK'
  BY <1>1, ClosedKeeps DEF IInv, TypeOK
<1>3. LoopInv' /\ EntryInv'
  BY <1>1 DEF LoopInv, EntryInv
<1> QED BY <1>1, <1>2, <1>3, ClosedKeeps DEF IInv

\* Steps that change no session, file or piece.
LEMMA QuietKeeps ==
    ASSUME IInv,
           EndRound \/ Stop \/ Joined \/ UNCHANGED vars \/ \E s \in Slots : ClientReads(s)
    PROVE  IInv' /\ sess' = sess
<1>1. sess' = sess /\ envio' = envio /\ fs' = fs /\ got' = got
  BY DEF EndRound, Stop, Joined, vars, ClientReads, pipes, client
<1>2. SessionsInv'
  BY <1>1 DEF IInv, SessionsInv
<1>3. CASE EndRound
  <2>1. TypeOK'
    BY <1>1, <1>3 DEF EndRound, IInv, TypeOK, Unanswered, pipes, client
  <2>2. LoopInv' /\ EntryInv'
    BY <1>3 DEF EndRound, IInv, LoopInv, EntryInv
  <2> QED BY <1>1, <1>2, <2>1, <2>2 DEF IInv
<1>4. CASE Stop
  <2>1. TypeOK'
    BY <1>1, <1>4 DEF Stop, IInv, TypeOK, pipes, client
  <2>2. LoopInv' /\ EntryInv'
    BY <1>1, <1>4 DEF Stop, IInv, LoopInv, EntryInv
  <2> QED BY <1>1, <1>2, <2>1, <2>2 DEF IInv
<1>5. CASE Joined
  <2>1. TypeOK'
    BY <1>1, <1>5 DEF Joined, IInv, TypeOK, pipes, client
  <2>2. LoopInv' /\ EntryInv'
    BY <1>1, <1>5 DEF Joined, IInv, LoopInv, EntryInv
  <2> QED BY <1>1, <1>2, <2>1, <2>2 DEF IInv
<1>6. CASE UNCHANGED vars
  <2>1. TypeOK'
    BY <1>1, <1>6 DEF vars, server, IInv, TypeOK, pipes, client
  <2>2. LoopInv' /\ EntryInv'
    BY <1>1, <1>6 DEF vars, server, IInv, LoopInv, EntryInv
  <2> QED BY <1>1, <1>2, <2>1, <2>2 DEF IInv
<1>7. CASE \E s \in Slots : ClientReads(s)
  <2>1. TypeOK'
    BY <1>1, <1>7 DEF ClientReads, server, IInv, TypeOK
  <2>2. LoopInv' /\ EntryInv'
    BY <1>1, <1>7 DEF ClientReads, server, IInv, LoopInv, EntryInv
  <2> QED BY <1>1, <1>2, <2>1, <2>2 DEF IInv
<1> QED BY <1>3, <1>4, <1>5, <1>6, <1>7

\* Every step, sorted by what it does to the sessions.
LEMMA StepCases ==
    ASSUME IInv, [Next]_vars
    PROVE  \/ Poll \/ Accept \/ Ended \/ Start
           \/ EndRound \/ Stop \/ Joined \/ UNCHANGED vars \/ \E s \in Slots : ClientReads(s)
           \/ \E s \in Slots : Gone(s) \/ Serves(s)
BY ServesCases DEF Next, LoopStep, IInv

\* Whatever the loop, a client or the screen does keeps the invariant: what a slot
\* holds, and what the turn has still to serve, stays consistent.
THEOREM StepInv == IInv /\ [Next]_vars => IInv'
<1> SUFFICES ASSUME IInv, [Next]_vars PROVE IInv'
  OBVIOUS
<1> QED BY StepCases, PollKeeps, AcceptKeeps, EndedKeeps, StartKeeps, QuietKeeps,
          GoneKeeps, ServesKeeps

\* The invariant the four theorems below are drawn from always holds.
THEOREM Invariance == Spec => []IInv
<1>1. Init => IInv
  BY InitInv
<1>2. IInv /\ [Next]_vars => IInv'
  BY StepInv
<1> QED BY <1>1, <1>2, PTL DEF Spec

-----------------------------------------------------------------------------
\* Type correctness of the FTP server.
THEOREM TypeCorrect == Spec => []TypeOK
<1>1. IInv => TypeOK
  BY DEF IInv
<1> QED BY <1>1, Invariance, PTL

\* NothingLeaks: no path through the commands, the pieces of a transfer, a broken
\* connection or the end of the server leaves a socket, an open file or a piece of
\* one behind.
THEOREM NothingIsLeaked == Spec => []NothingLeaks
<1>1. IInv => NothingLeaks
  BY DEF IInv, SessionsInv, Tidy, NothingLeaks
<1> QED BY <1>1, Invariance, PTL

\* EntryForItsClient: what the poll reported of a client that is gone is never
\* taken for the client that has its slot now.
THEOREM EntriesForTheirClients == Spec => []EntryForItsClient
<1>1. IInv => EntryForItsClient
  <2> SUFFICES ASSUME IInv, NEW s \in Slots, Turn(CtrlOf(s)) \/ Turn(DataOf(s))
               PROVE  s \notin fresh
    BY DEF EntryForItsClient
  <2>1. PICK e \in todo : e \in {CtrlOf(s), DataOf(s)}
    BY DEF Turn
  <2>2. e # Listening /\ e.slot = s
    BY <2>1 DEF CtrlOf, DataOf, Listening
  <2> QED BY <2>1, <2>2 DEF IInv, EntryInv
<1> QED BY <1>1, Invariance, PTL

\* DownloadWhole: a download answered 226 has given its client the whole file, in
\* order, whatever the size of the buffer, however little each send took, and
\* whatever the other sessions did meanwhile.
THEOREM DownloadsWhole == Spec => DownloadWhole
<1> DEFINE Whole(s) ==
        sess[s].state = "ENVIANDO" /\ sess'[s].state = "PARADO" /\ reply' = "226"
            => got[s] = fs[sess[s].file]
<1>1. IInv /\ [Next]_vars => [\A s \in Slots : Whole(s)]_vars
  <2> SUFFICES ASSUME IInv, [Next]_vars, NEW s \in Slots PROVE Whole(s)
    OBVIOUS
  <2>1. ASSUME NEW t \in Slots, Effect(t) PROVE Whole(s)
    BY <2>1 DEF Effect
  <2>2. CASE sess' = sess
    BY <2>2
  <2>3. CASE Ended
    BY <2>3 DEF Ended, Unanswered
  <2>4. CASE Start
    <3>1. loop = "none"
      BY <2>4 DEF Start, IInv, LoopInv
    <3>2. sess[s] = Closed
      BY <3>1 DEF IInv, LoopInv
    <3> QED BY <3>2 DEF Closed
  <2>5. CASE Poll \/ \E t \in Slots : Gone(t)
    BY <2>2, <2>5 DEF Poll, Gone
  <2>6. CASE Accept
    BY <2>1, <2>2, <2>6, AcceptKeeps
  <2>7. CASE EndRound \/ Stop \/ Joined \/ UNCHANGED vars \/ \E t \in Slots : ClientReads(t)
    BY <2>2, <2>7, QuietKeeps
  <2>8. CASE \E t \in Slots : Serves(t)
    BY <2>1, <2>8 DEF Serves
  <2> QED BY <2>3, <2>4, <2>5, <2>6, <2>7, <2>8, StepCases
<1> QED BY <1>1, Invariance, PTL DEF Spec, DownloadWhole
=============================================================================
