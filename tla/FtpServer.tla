----------------------------- MODULE FtpServer -----------------------------
(***************************************************************************)
(* The FTP server of the development screen (gui/source/ftpd.c).           *)
(*                                                                         *)
(* One thread serves every client.  Each turn of its loop polls the        *)
(* sockets and then handles what was ready, one entry after the other, so  *)
(* an entry is handled after the ones before it may have changed or closed *)
(* its session.  The clients send commands, connect, read, stop reading    *)
(* and vanish as they please; the screen starts and stops the server.      *)
(* A file is a sequence of units, Full of which fit in the send buffer.    *)
(* Paths are absolute (what resolve returns).                              *)
(***************************************************************************)
EXTENDS Integers, Sequences, FiniteSets

NoPath == "none"

CONSTANTS
    Slots,       \* indices of g_sessoes
    MaxSessions, \* g_max_sessoes: 4, or 1 when the app has little memory
    Paths,       \* what clients name on the card
    Card,        \* Card[p]: what is at p at first
    Full,        \* BUF_TRANSF, in units
    MaxUpload,   \* bound on the units of one upload
    Renamers,    \* slots whose client renames (a bound: the others never do)
    Readers,     \* slots whose client keeps reading what it is sent
    Absent       \* nothing at a path

ASSUME FtpAssumption ==
    /\ IsFiniteSet(Slots) /\ Slots = 1..Cardinality(Slots) /\ MaxSessions \in Slots
    /\ IsFiniteSet(Paths)
    /\ Full \in Nat \ {0} /\ MaxUpload \in Nat
    /\ Readers \subseteq Slots /\ Renamers \subseteq Slots
    /\ NoPath \notin Paths /\ Absent \notin Seq(Nat)
    /\ Card \in [Paths -> Seq(Nat) \cup {Absent}]

Sent == 0  \* a unit of an upload
Closed == [used |-> FALSE, listen |-> FALSE, data |-> FALSE, state |-> "PARADO",
           file |-> NoPath, at |-> 0, wrote |-> <<>>, lista |-> 0, from |-> NoPath]

VARIABLES
    running,  \* g_rodando
    stop,     \* g_parar
    loop,     \* where laco is: "none" (no thread), "poll", "round", "ended"
    todo,     \* the entries of this turn's poll still to handle
    fresh,    \* slots given to a new client in this turn
    sess,     \* g_sessoes
    envio,    \* envio[s]: the piece of a file on its way to the client
    fs,       \* the card
    room,     \* room[s]: 1 when the client's data connection accepts more
    got,      \* got[s]: what the client received on this data connection
    reply     \* the final answer of the transfer that ended in this step, or "none"

server == <<running, stop, loop, todo, fresh>>
client == <<room, got>>
pipes  == <<envio, fs, client>>
vars   == <<server, sess, pipes, reply>>

Init ==
    /\ running = FALSE /\ stop = FALSE /\ loop = "none" /\ todo = {} /\ fresh = {}
    /\ sess = [s \in Slots |-> Closed] /\ envio = [s \in Slots |-> <<>>]
    /\ fs = Card
    /\ room = [s \in Slots |-> 1] /\ got = [s \in Slots |-> <<>>]
    /\ reply = "none"

\* One buffer for every session, as a static one would be.
BufOfShared(s) == 1
\* Each session has a buffer of its own.
BufOf(s) == s

Used == {s \in Slots : sess[s].used}
IsFile(p) == fs[p] # Absent
\* The card refuses to remove, rename or rewrite a file that is open, and to
\* open for reading one that is being written.
Open(p) == \E s \in Used : sess[s].file = p
Writing(p) == \E s \in Used : sess[s].file = p /\ sess[s].state = "RECEBENDO"

\* fecha_data, leaving session s as y.  What fclose could not write out is lost,
\* and nobody asks.
CloseInto(s, y) ==
    /\ sess' = [sess EXCEPT ![s] = y]
    /\ envio' = [envio EXCEPT ![BufOf(s)] = <<>>]
    /\ got' = [got EXCEPT ![s] = <<>>] /\ room' = [room EXCEPT ![s] = 1]
    /\ IF sess[s].state = "RECEBENDO"
       THEN \E n \in 0..Len(sess[s].wrote) :
               fs' = [fs EXCEPT ![sess[s].file] = SubSeq(sess[s].wrote, 1, n)]
       ELSE UNCHANGED fs

\* What fecha_data leaves of a session, and a session after fecha_sessao.
Idle(s) == [Closed EXCEPT !.used = TRUE, !.from = sess[s].from]
Unanswered == reply' = "none"
CloseSession(s) == CloseInto(s, Closed) /\ Unanswered
Ends(s, r) == CloseInto(s, Idle(s)) /\ reply' = r
-----------------------------------------------------------------------------
(* Commands.                                                               *)

\* PASV without fecha_data: the transfer there was keeps its file open.
PasvKeepsTransfer(s) ==
    /\ sess' = [sess EXCEPT ![s].listen = TRUE, ![s].state = "ESPERANDO_DATA"]
    /\ Unanswered /\ UNCHANGED pipes

\* PASV, answered with a port or, when none could be opened, with 425.
Pasv(s) ==
    /\ \/ CloseInto(s, [Idle(s) EXCEPT !.listen = TRUE, !.state = "ESPERANDO_DATA"])
       \/ CloseInto(s, Idle(s))
    /\ Unanswered

Starts(s, y) ==
    /\ sess' = [sess EXCEPT ![s] = y]
    /\ Unanswered
    /\ UNCHANGED <<envio, client>>

\* LIST and NLST: the text is built at once, from what is on the card now.
List(s) ==
    /\ sess[s].state = "ESPERANDO_DATA"
    /\ \/ /\ Starts(s, [sess[s] EXCEPT !.state = "LISTANDO",
                           !.lista = Cardinality({p \in Paths : fs[p] # Absent})])
          /\ UNCHANGED fs
       \/ Ends(s, "550")

\* fopen may fail for what the card says of the file, or for reasons of its own.
Retr(s, p) ==
    /\ sess[s].state = "ESPERANDO_DATA"
    /\ \/ /\ IsFile(p) /\ ~Writing(p)
          /\ Starts(s, [sess[s] EXCEPT !.state = "ENVIANDO", !.file = p])
          /\ UNCHANGED fs
       \/ Ends(s, "550")

\* STOR empties the file before the first byte arrives.
Stor(s, p) ==
    /\ sess[s].state = "ESPERANDO_DATA"
    /\ \/ /\ ~Open(p)
          /\ Starts(s, [sess[s] EXCEPT !.state = "RECEBENDO", !.file = p])
          /\ fs' = [fs EXCEPT ![p] = <<>>]
       \/ Ends(s, "550")

OnCard(new) == fs' = new /\ Unanswered /\ UNCHANGED <<envio, client>>

Dele(s, p) ==
    /\ IsFile(p) /\ ~Open(p)
    /\ OnCard([fs EXCEPT ![p] = Absent]) /\ UNCHANGED sess

\* RNFR remembers a path that is there; RNTO may come any time later.
Rnfr(s, p) ==
    /\ s \in Renamers /\ IsFile(p)
    /\ sess' = [sess EXCEPT ![s].from = p]
    /\ Unanswered /\ UNCHANGED pipes

\* rename does not replace what is at the destination.
Renames(a, b, card) ==
    /\ card[a] # Absent /\ ~Open(a)
    /\ a = b \/ card[b] = Absent
Renamed(a, b, card) ==
    IF a = b THEN card ELSE [card EXCEPT ![b] = card[a], ![a] = Absent]

\* RNTO: rename first; if that fails take the destination out of the way and
\* try once more.
Rnto(s, p) ==
    LET a == sess[s].from
        cleared == IF IsFile(p) /\ ~Open(p) THEN [fs EXCEPT ![p] = Absent] ELSE fs
    IN /\ a # NoPath
       /\ sess' = [sess EXCEPT ![s].from = NoPath]
       /\ OnCard(CASE Renames(a, p, fs)      -> Renamed(a, p, fs)
                   [] ~Renames(a, p, fs) /\ Renames(a, p, cleared)
                                             -> Renamed(a, p, cleared)
                   [] OTHER                  -> cleared)

\* A command that only answers, refuses what it was asked, or is not known.
Answer(s) == Unanswered /\ UNCHANGED <<sess, pipes>>

Command(s) ==
    \/ Pasv(s) \/ List(s) \/ CloseSession(s) \/ Answer(s)
    \/ \E p \in Paths :
          Retr(s, p) \/ Stor(s, p) \/ Dele(s, p) \/ Rnfr(s, p) \/ Rnto(s, p)
-----------------------------------------------------------------------------
(* bombeia: one piece of one transfer.                                     *)

Rest(s) == SubSeq(fs[sess[s].file], sess[s].at + 1, Len(fs[sess[s].file]))
Prefix(q, n) == SubSeq(q, 1, IF n < Len(q) THEN n ELSE Len(q))
Suffix(q, n) == SubSeq(q, n + 1, Len(q))
\* The piece to send: what is left of the last one, or the next Full units.
Piece(s) == IF envio[BufOf(s)] # <<>> THEN envio[BufOf(s)] ELSE Prefix(Rest(s), Full)
ReadTo(s) == sess[s].at + (IF envio[BufOf(s)] # <<>> THEN 0 ELSE Len(Piece(s)))

\* The entries of fds: the listening socket, a session's control, its data socket.
Listening == [kind |-> "accept", slot |-> 0]
CtrlOf(s) == [kind |-> "ctrl", slot |-> s]
DataOf(s) == [kind |-> "data", slot |-> s]

\* The listening socket between the controls and the data sockets.
PlaceListenLate(e) == e.slot + (CASE e.kind = "ctrl"   -> 0
                                  [] e.kind = "accept" -> Cardinality(Slots) + 1
                                  [] e.kind = "data"   -> Cardinality(Slots) + 1)

\* An entry's place in fds: the listening socket, then each session's control
\* and data.
Place(e) == 2 * e.slot + (IF e.kind = "data" THEN 1 ELSE 0)

\* The loop has come to entry e, and goes on to the next.
Turn(e) == loop = "round" /\ e \in todo /\ \A f \in todo : Place(e) <= Place(f)
Handled(e) == todo' = todo \ {e}

Sends(s, n) ==
    /\ sess' = [sess EXCEPT ![s].at = ReadTo(s)]
    /\ envio' = [envio EXCEPT ![BufOf(s)] = Suffix(Piece(s), n)]
    /\ got' = [got EXCEPT ![s] = @ \o Prefix(Piece(s), n)]
    /\ Unanswered /\ UNCHANGED fs

\* The file has been read to its end; the card fails to give the next piece.
SendEof(s) == envio[BufOf(s)] = <<>> /\ Rest(s) = <<>> /\ Ends(s, "226")
SendFails(s) == envio[BufOf(s)] = <<>> /\ Ends(s, "451")

\* SendPiece as the loop it once was: the same entry until the piece is gone.
SendPieceWhole(s) ==
    /\ Piece(s) # <<>>
    /\ \E n \in (IF room[s] = 1 THEN 1..Len(Piece(s)) ELSE {0}) :
          /\ Sends(s, n)
          /\ room' = [room EXCEPT ![s] = IF n < Len(Piece(s)) THEN 0 ELSE @]
          /\ IF n < Len(Piece(s)) THEN UNCHANGED todo ELSE Handled(DataOf(s))

\* send takes some of the piece, or nothing when the client is not reading; the
\* rest waits for another turn.
SendPiece(s) ==
    /\ Piece(s) # <<>>
    /\ \E n \in (IF room[s] = 1 THEN 1..Len(Piece(s)) ELSE {0}) :
          /\ Sends(s, n)
          /\ room' = [room EXCEPT ![s] = IF n < Len(Piece(s)) THEN 0 ELSE @]
    /\ Handled(DataOf(s))

Sending(s) ==
    /\ sess[s].state = "ENVIANDO"
    /\ \/ SendPiece(s)
       \/ (SendEof(s) \/ SendFails(s)) /\ Handled(DataOf(s))

\* send takes n lines of the text.
SendsLines(s, n) ==
    /\ sess' = [sess EXCEPT ![s].lista = @ - n]
    /\ room' = [room EXCEPT ![s] = IF n < sess[s].lista THEN 0 ELSE @]
    /\ Unanswered /\ UNCHANGED <<envio, fs, got>>

\* Listing with the end noticed one line late.
ListingLate(s) ==
    /\ sess[s].state = "LISTANDO"
    /\ IF sess[s].lista < 0
       THEN Ends(s, "226")
       ELSE \E n \in (IF room[s] = 1 THEN 1..(sess[s].lista + 1) ELSE {0}) : SendsLines(s, n)
    /\ Handled(DataOf(s))

\* Listing as a loop: the same entry until the text is gone.
ListingWhole(s) ==
    /\ sess[s].state = "LISTANDO"
    /\ \/ sess[s].lista = 0 /\ Ends(s, "226") /\ Handled(DataOf(s))
       \/ /\ sess[s].lista > 0
          /\ \E n \in (IF room[s] = 1 THEN 1..sess[s].lista ELSE {0}) :
                /\ SendsLines(s, n)
                /\ IF n < sess[s].lista THEN UNCHANGED todo ELSE Handled(DataOf(s))

\* As with a piece, what the client does not take waits for another turn.
Listing(s) ==
    /\ sess[s].state = "LISTANDO"
    /\ \/ sess[s].lista = 0 /\ Ends(s, "226")
       \/ /\ sess[s].lista > 0
          /\ \E n \in (IF room[s] = 1 THEN 1..sess[s].lista ELSE {0}) : SendsLines(s, n)
    /\ Handled(DataOf(s))

\* The client sends a unit; the card has no room for it; the client closed.
Receiving(s) ==
    /\ sess[s].state = "RECEBENDO"
    /\ \/ /\ Len(sess[s].wrote) < MaxUpload
          /\ sess' = [sess EXCEPT ![s].wrote = Append(@, Sent)]
          /\ Unanswered /\ UNCHANGED pipes
       \/ Ends(s, "552")
       \/ Ends(s, "226")
    /\ Handled(DataOf(s))

-----------------------------------------------------------------------------
(* The loop.                                                               *)

Served == {s \in Used : s <= MaxSessions}
\* Data sockets the poll watches: one waiting for its client, or one with a
\* transfer.
Watched == {s \in Served : sess[s].listen \/ (sess[s].data /\ sess[s].state # "ESPERANDO_DATA")}
\* Those it must report: the client of a download takes more.
Writable == {s \in Watched : ~sess[s].listen /\ room[s] = 1
                              /\ sess[s].state \in {"ENVIANDO", "LISTANDO"}}

\* What was ready: the listening socket (a), the controls C, the data sockets D.
Poll ==
    /\ loop = "poll" /\ ~stop
    /\ \E a \in BOOLEAN, C \in SUBSET Served, D \in SUBSET Watched :
          /\ Writable \subseteq D /\ (a \/ C # {} \/ D # {})
          /\ todo' = (IF a THEN {Listening} ELSE {})
                      \cup {CtrlOf(s) : s \in C} \cup {DataOf(s) : s \in D}
    /\ loop' = "round"
    /\ Unanswered /\ UNCHANGED <<running, stop, fresh, sess, pipes>>

EndRound ==
    /\ loop = "round" /\ todo = {}
    /\ loop' = "poll" /\ fresh' = {}
    /\ Unanswered /\ UNCHANGED <<running, stop, todo, sess, pipes>>

SameRound == UNCHANGED <<running, stop, loop>>

\* A client connects and takes the first free slot; with none it is turned away.
Accept ==
    LET free == {s \in 1..MaxSessions : ~sess[s].used}
    IN /\ Turn(Listening) /\ Handled(Listening) /\ SameRound
       /\ IF free = {}
          THEN UNCHANGED <<fresh, sess>>
          ELSE \E s \in free :
                  /\ \A t \in free : s <= t
                  /\ sess' = [sess EXCEPT ![s] = [Closed EXCEPT !.used = TRUE]]
                  /\ fresh' = fresh \cup {s}
       /\ Unanswered /\ UNCHANGED pipes

\* A session that an earlier entry of this turn closed.
Gone(s) ==
    /\ ~sess[s].used /\ SameRound
    /\ \E e \in {CtrlOf(s), DataOf(s)} : Turn(e) /\ Handled(e)
    /\ Unanswered /\ UNCHANGED <<fresh, sess, pipes>>

Control(s) ==
    /\ Turn(CtrlOf(s)) /\ sess[s].used /\ Handled(CtrlOf(s)) /\ SameRound
    /\ Command(s)
    /\ UNCHANGED fresh

\* The client has reached the port PASV gave it.
Connected(s) ==
    /\ sess[s].listen
    /\ sess' = [sess EXCEPT ![s].listen = FALSE, ![s].data = TRUE]
    /\ Handled(DataOf(s)) /\ Unanswered /\ UNCHANGED pipes

\* Nothing to do: the port or the transfer is not the one the poll reported.
Nothing(s) ==
    /\ sess[s].listen \/ ~sess[s].data \/ sess[s].state \in {"PARADO", "ESPERANDO_DATA"}
    /\ Handled(DataOf(s)) /\ Answer(s)

Data(s) ==
    /\ Turn(DataOf(s)) /\ sess[s].used /\ SameRound /\ UNCHANGED fresh
    /\ \/ Nothing(s)
       \/ Connected(s)
       \/ sess[s].data /\ (Sending(s) \/ Listing(s) \/ Receiving(s))

\* The data connection broke.
Broken(s) ==
    /\ Turn(DataOf(s)) /\ sess[s].used /\ SameRound /\ UNCHANGED fresh
    /\ sess[s].data /\ sess[s].state \in {"ENVIANDO", "LISTANDO", "RECEBENDO"}
    /\ Ends(s, "426") /\ Handled(DataOf(s))

AllClosed ==
    /\ sess' = [s \in Slots |-> Closed] /\ envio' = [s \in Slots |-> <<>>]
    /\ got' = [s \in Slots |-> <<>>] /\ room' = [s \in Slots |-> 1]

\* The loop sees g_parar and closes every session.
Ended ==
    /\ loop = "poll" /\ stop
    /\ loop' = "ended"
    /\ AllClosed
    /\ \E cut \in [{s \in Slots : sess[s].state = "RECEBENDO"} -> 0..MaxUpload] :
          fs' = [p \in Paths |->
              IF \E s \in DOMAIN cut : sess[s].file = p
              THEN LET s == CHOOSE x \in DOMAIN cut : sess[x].file = p
                   IN Prefix(sess[s].wrote, cut[s])
              ELSE fs[p]]
    /\ Unanswered /\ UNCHANGED <<running, stop, todo, fresh>>
-----------------------------------------------------------------------------
(* The screen: ftpd_start when it opens, ftpd_stop when it goes.           *)

Start ==
    /\ ~running
    /\ running' = TRUE /\ stop' = FALSE /\ loop' = "poll" /\ todo' = {} /\ fresh' = {}
    /\ AllClosed /\ UNCHANGED <<fs, reply>>

Stop ==
    /\ running /\ ~stop /\ stop' = TRUE
    /\ UNCHANGED <<running, loop, todo, fresh, sess, pipes, reply>>

\* threadWaitForExit returns.
Joined ==
    /\ running /\ loop = "ended"
    /\ running' = FALSE /\ loop' = "none"
    /\ UNCHANGED <<stop, todo, fresh, sess, pipes, reply>>

\* A client takes what is waiting in its socket.
ClientReads(s) ==
    /\ room[s] = 0 /\ room' = [room EXCEPT ![s] = 1]
    /\ UNCHANGED <<server, sess, envio, fs, got, reply>>

LoopStep ==
    \/ Poll \/ EndRound \/ Ended \/ Accept
    \/ \E s \in Slots : Gone(s) \/ Control(s) \/ Data(s)
Next ==
    \/ LoopStep \/ Start \/ Stop \/ Joined
    \/ \E s \in Slots : Broken(s) \/ ClientReads(s)
Spec == Init /\ [][Next]_vars

\* The thread runs, the screen's join returns, and a client that reads goes on
\* reading; nobody has to connect, to send a command or to leave the screen, and
\* no connection has to break.
FairSpec ==
    /\ Spec
    /\ WF_vars(LoopStep) /\ WF_vars(Joined)
    /\ \A s \in Readers : WF_vars(ClientReads(s))
-----------------------------------------------------------------------------
(* Properties.                                                             *)

Session == [used : BOOLEAN, listen : BOOLEAN, data : BOOLEAN,
            state : {"PARADO", "ESPERANDO_DATA", "ENVIANDO", "RECEBENDO", "LISTANDO"},
            file : Paths \cup {NoPath}, at : Nat, wrote : Seq(Nat),
            lista : 0..Cardinality(Paths), from : Paths \cup {NoPath}]

TypeOK ==
    /\ running \in BOOLEAN /\ stop \in BOOLEAN
    /\ loop \in {"none", "poll", "round", "ended"}
    /\ todo \subseteq [kind : {"ctrl", "data"}, slot : Slots] \cup {Listening}
    /\ fresh \subseteq Slots
    /\ sess \in [Slots -> Session]
    /\ envio \in [Slots -> Seq(Nat)] /\ got \in [Slots -> Seq(Nat)]
    /\ fs \in [Paths -> Seq(Nat) \cup {Absent}]
    /\ room \in [Slots -> {0, 1}]
    /\ reply \in {"none", "226", "426", "451", "550", "552"}

\* Nothing outlives its use: a slot without a client, or without a transfer,
\* holds no socket, no open file and no piece of one; a file is open exactly
\* while it is being transferred.  (fecha_data and fecha_sessao on every path.)
NothingLeaks ==
    \A s \in Slots :
        /\ ~sess[s].used => sess[s] = Closed
        /\ sess[s].state = "PARADO" => ~sess[s].listen /\ ~sess[s].data
        /\ ~(sess[s].listen /\ sess[s].data)
        /\ (sess[s].file # NoPath) <=> sess[s].state \in {"ENVIANDO", "RECEBENDO"}
        /\ envio[s] # <<>> => sess[s].state = "ENVIANDO"

\* A download that ends with "226" gave the client the whole file, in order,
\* whatever the other sessions and the card did meanwhile.
DownloadWhole ==
    [][\A s \in Slots :
          sess[s].state = "ENVIANDO" /\ sess'[s].state = "PARADO" /\ reply' = "226"
              => got[s] = fs[sess[s].file]]_vars

\* An entry is never handled for a client that connected after the poll that
\* reported it, although sessions end and slots are reused within a turn.
EntryForItsClient ==
    \A s \in Slots : Turn(CtrlOf(s)) \/ Turn(DataOf(s)) => s \notin fresh

\* Leaving the screen never hangs: once stop is asked, the thread ends, even
\* with clients that no longer read.
StopEnds == stop ~> ~running

\* A client that keeps reading is served to the end of its download or listing
\* while the others stall in theirs, unless the screen is left.
ReadersServed ==
    \A s \in Readers :
        (loop # "none" /\ sess[s].state \in {"ENVIANDO", "LISTANDO"} /\ sess[s].data)
            ~> (sess[s].state \notin {"ENVIANDO", "LISTANDO"})

\* The content of a file goes only where a command names it: it is deleted by
\* DELE, rewritten by STOR, or its place is taken by the file RNTO moves.  Does
\* not hold where a file was deleted after RNFR named it, so no run has it.
RenameReplaces ==
    [][\A s \in Slots, p \in Paths :
          Turn(CtrlOf(s)) /\ IsFile(p) /\ fs'[p] = Absent
          /\ sess[s].from # NoPath /\ sess'[s].from = NoPath
              => \E q \in Paths : q # p /\ fs'[q] = fs[p]]_vars
=============================================================================
