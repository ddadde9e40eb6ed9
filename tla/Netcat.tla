------------------------------- MODULE Netcat -------------------------------
(***************************************************************************)
(* The netcat sessions of src/internal/netcat and their windows in         *)
(* src/ui_netcat.go.  The GUI thread connects, sends, disconnects and,     *)
(* after the event loop has ended, closes everything; each session has a   *)
(* reader goroutine; both may close a session, behind a sync.Once.         *)
(***************************************************************************)
EXTENDS Integers, Sequences, FiniteSets

CONSTANTS Windows, NoWindow,
          Tls,        \* whether a window may ask for TLS
          MaxSeq,     \* bound: sessions ever opened
          MaxData     \* bound: chunks the peer of a session sends

ASSUME NetcatAssumption ==
  /\ NoWindow \notin Windows /\ Tls \in BOOLEAN
  /\ MaxSeq \in Nat /\ MaxData \in Nat

Ids == 1..MaxSeq

VARIABLES
  gui,       \* what the GUI thread is doing: [at, win, todo, dispose]
  seq,       \* Manager.seq
  sessions,  \* Manager.sessions
  conn,      \* [Ids -> {"none", "open", "closed"}]
  once,      \* [Ids]: who is in the session's once.Do, "done" after it
  stage,     \* [Ids]: how far that close has come
  reader,    \* [Ids]: the session's reader goroutine
  received,  \* [Ids]: chunks read so far
  queue,     \* the events on their way to the GUI thread
  winId,     \* [Windows]: netcatWindow.id, 0 when not connected
  netcats,   \* [Ids]: uiApp.netcats
  announced, \* [Ids]: calls of OnClose
  printed    \* the lines shown last: [Ids -> {"nothing", "data", "closed"}]

session == <<seq, sessions, conn, once, stage>>
reading == <<reader, received>>
window == <<winId, netcats, printed>>
vars == <<gui, session, reading, queue, window, announced>>

Free == [at |-> "free", win |-> NoWindow, todo |-> {}, dispose |-> FALSE]

Init ==
  /\ gui = Free
  /\ seq = 0 /\ sessions = {}
  /\ conn = [s \in Ids |-> "none"]
  /\ once = [s \in Ids |-> "free"] /\ stage = [s \in Ids |-> "none"]
  /\ reader = [s \in Ids |-> "none"] /\ received = [s \in Ids |-> 0]
  /\ queue = <<>>
  /\ winId = [w \in Windows |-> 0]
  /\ netcats = [s \in Ids |-> NoWindow]
  /\ announced = [s \in Ids |-> 0]
  /\ printed = [s \in Ids |-> "nothing"]

-----------------------------------------------------------------------------
(* netcatWindow.start and Manager.Connect, on the GUI thread.              *)

Connect(w) ==
  /\ gui = Free /\ winId[w] = 0 /\ seq < MaxSeq
  /\ gui' = [Free EXCEPT !.at = "dialing", !.win = w]
  /\ UNCHANGED <<session, reading, queue, window, announced>>

\* The dialer's timeout bounds the attempt: it fails or a connection is there.
Dial ==
  /\ gui.at = "dialing"
  /\ \/ gui' = Free
     \/ gui' = [gui EXCEPT !.at = "dialed"]
     \/ Tls /\ gui' = [gui EXCEPT !.at = "handshaking"]
  /\ UNCHANGED <<session, reading, queue, window, announced>>

\* HandshakeContext(ctx): ctx is the application's, only the peer can end it.
Handshake ==
  /\ gui.at = "handshaking"
  /\ gui' \in {Free, [gui EXCEPT !.at = "dialed"]}
  /\ UNCHANGED <<session, reading, queue, window, announced>>

\* The session is registered and its reader started.
Register ==
  /\ gui.at = "dialed"
  /\ LET s == seq + 1
     IN /\ seq' = s
        /\ sessions' = sessions \cup {s}
        /\ conn' = [conn EXCEPT ![s] = "open"]
        /\ reader' = [reader EXCEPT ![s] = "reading"]
  /\ gui' = [gui EXCEPT !.at = "connected"]
  /\ UNCHANGED <<once, stage, received, queue, window, announced>>

\* Connect has returned: the window takes the id, the registry the window.
Connected ==
  /\ gui.at = "connected"
  /\ winId' = [winId EXCEPT ![gui.win] = seq]
  /\ netcats' = [netcats EXCEPT ![seq] = gui.win]
  /\ gui' = Free
  /\ UNCHANGED <<session, reading, queue, printed, announced>>

-----------------------------------------------------------------------------
(* submit and sendRaw: Manager.Send, on the GUI thread, without a deadline.*)

\* get finds no session when its close has got to the registry: an error line.
Send(w) ==
  /\ gui = Free /\ winId[w] \in sessions
  /\ gui' = [Free EXCEPT !.at = "writing", !.win = w]
  /\ UNCHANGED <<session, reading, queue, window, announced>>

Writing(s) == gui.at = "writing" /\ winId[gui.win] = s

\* The peer has taken the bytes, or the connection broke.
Written ==
  /\ gui.at = "writing"
  /\ gui' = Free
  /\ UNCHANGED <<session, reading, queue, window, announced>>

\* The reader has closed the connection under the write.
WriteFails(s) ==
  /\ Writing(s) /\ conn[s] # "open"
  /\ gui' = Free
  /\ UNCHANGED <<session, reading, queue, window, announced>>

-----------------------------------------------------------------------------
(* Manager.close, by the reader or by the GUI thread: the others wait for   *)
(* whoever is inside once.Do.                                              *)

Closers == {"reader", "gui"}
GuiInside == \E s \in Ids : once[s] = "gui"
Wants(c, s) == IF c = "gui" THEN gui.at = "closing" /\ s \in gui.todo /\ ~GuiInside
                            ELSE reader[s] = "ending"

EnterOnce(c, s) ==
  /\ Wants(c, s) /\ once[s] = "free"
  /\ once' = [once EXCEPT ![s] = c]
  /\ conn' = [conn EXCEPT ![s] = "closed"]
  /\ stage' = [stage EXCEPT ![s] = "closed"]
  /\ UNCHANGED <<gui, seq, sessions, reading, queue, window, announced>>

Unregister(s) ==
  /\ stage[s] = "closed"
  /\ sessions' = sessions \ {s}
  /\ stage' = [stage EXCEPT ![s] = "removed"]
  /\ UNCHANGED <<gui, seq, conn, once, reading, queue, window, announced>>

\* Faulty variant: the sink waits until the GUI thread has taken the event.
NotifyWaits(s) ==
  /\ stage[s] = "removed"
  /\ gui = Free
  /\ queue' = Append(queue, [kind |-> "closed", id |-> s])
  /\ announced' = [announced EXCEPT ![s] = @ + 1]
  /\ once' = [once EXCEPT ![s] = "done"]
  /\ stage' = [stage EXCEPT ![s] = "none"]
  /\ UNCHANGED <<gui, seq, sessions, conn, reading, window>>

\* OnClose: the event; then the once is done.
NotifyClosed(s) ==
  /\ stage[s] = "removed"
  /\ queue' = Append(queue, [kind |-> "closed", id |-> s])
  /\ announced' = [announced EXCEPT ![s] = @ + 1]
  /\ once' = [once EXCEPT ![s] = "done"]
  /\ stage' = [stage EXCEPT ![s] = "none"]
  /\ UNCHANGED <<gui, seq, sessions, conn, reading, window>>

-----------------------------------------------------------------------------
(* readLoop.                                                               *)

Read(s) ==
  /\ reader[s] = "reading" /\ conn[s] = "open" /\ received[s] < MaxData
  /\ reader' = [reader EXCEPT ![s] = "data"]
  /\ received' = [received EXCEPT ![s] = @ + 1]
  /\ UNCHANGED <<gui, session, queue, window, announced>>

\* OnData with the private copy.
DeliverData(s) ==
  /\ reader[s] = "data"
  /\ queue' = Append(queue, [kind |-> "data", id |-> s])
  /\ reader' = [reader EXCEPT ![s] = "reading"]
  /\ UNCHANGED <<gui, session, received, window, announced>>

\* The peer closes or resets the connection.
ReadFails(s) ==
  /\ reader[s] = "reading" /\ conn[s] = "open"
  /\ reader' = [reader EXCEPT ![s] = "ending"]
  /\ UNCHANGED <<gui, session, received, queue, window, announced>>

\* The connection was closed under it.
ReadClosed(s) ==
  /\ reader[s] = "reading" /\ conn[s] = "closed"
  /\ reader' = [reader EXCEPT ![s] = "ending"]
  /\ UNCHANGED <<gui, session, received, queue, window, announced>>

ReaderEnds(s) ==
  /\ reader[s] = "ending" /\ once[s] = "done"
  /\ reader' = [reader EXCEPT ![s] = "gone"]
  /\ UNCHANGED <<gui, session, received, queue, window, announced>>

-----------------------------------------------------------------------------
(* The GUI: Disconnect, the window's close, the events, the shutdown.      *)

\* disconnectSession and closeSession: Manager.get, then close.
Disconnect(w, dispose) ==
  /\ gui = Free /\ winId[w] # 0
  /\ gui' = [at |-> "closing", win |-> w, todo |-> {winId[w]} \cap sessions,
             dispose |-> dispose]
  /\ UNCHANGED <<session, reading, queue, window, announced>>

\* The session's once is done, by whomever: on to the next one.
CloseReturns(s) ==
  /\ gui.at = "closing" /\ s \in gui.todo /\ once[s] = "done" /\ ~GuiInside
  /\ gui' = [gui EXCEPT !.todo = @ \ {s}]
  /\ UNCHANGED <<session, reading, queue, window, announced>>

ClosingEnds ==
  /\ gui.at = "closing" /\ gui.todo = {}
  /\ IF gui.win = NoWindow
     THEN gui' = [Free EXCEPT !.at = "exited"] /\ UNCHANGED window
     ELSE /\ gui' = Free
          /\ IF gui.dispose
             THEN /\ netcats' = [netcats EXCEPT ![winId[gui.win]] = NoWindow]
                  /\ winId' = [winId EXCEPT ![gui.win] = 0]
                  /\ UNCHANGED printed
             ELSE UNCHANGED window
  /\ UNCHANGED <<session, reading, queue, announced>>

Show(s, what) ==
  printed' = IF netcats[s] = NoWindow THEN printed ELSE [printed EXCEPT ![s] = what]

\* Faulty variant: the handler runs on the goroutine that emits.
HandleInline ==
  /\ gui.at # "exited" /\ queue # <<>>
  /\ LET e == Head(queue)
         w == netcats[e.id]
     IN /\ Show(e.id, e.kind)
        /\ IF e.kind = "closed" /\ w # NoWindow
           THEN /\ winId' = [winId EXCEPT ![w] = 0]
                /\ netcats' = [netcats EXCEPT ![e.id] = NoWindow]
           ELSE UNCHANGED <<winId, netcats>>
  /\ queue' = Tail(queue)
  /\ UNCHANGED <<gui, session, reading, announced>>

\* Faulty variant: the window stays in the registry.
HandleKeepsWindow ==
  /\ gui = Free /\ queue # <<>>
  /\ LET e == Head(queue)
         w == netcats[e.id]
     IN /\ Show(e.id, e.kind)
        /\ IF e.kind = "closed" /\ w # NoWindow
           THEN winId' = [winId EXCEPT ![w] = 0]
           ELSE UNCHANGED winId
  /\ queue' = Tail(queue)
  /\ UNCHANGED <<gui, session, reading, netcats, announced>>

\* onNetData and onNetClosed, between two other things the GUI thread does.
Handle ==
  /\ gui = Free /\ queue # <<>>
  /\ LET e == Head(queue)
         w == netcats[e.id]
     IN /\ Show(e.id, e.kind)
        /\ IF e.kind = "closed" /\ w # NoWindow
           THEN /\ winId' = [winId EXCEPT ![w] = 0]
                /\ netcats' = [netcats EXCEPT ![e.id] = NoWindow]
           ELSE UNCHANGED <<winId, netcats>>
  /\ queue' = Tail(queue)
  /\ UNCHANGED <<gui, session, reading, announced>>

\* The event loop has ended: App.shutdown, CloseAll with its snapshot.
Quit ==
  /\ gui = Free
  /\ gui' = [Free EXCEPT !.at = "closing", !.todo = sessions]
  /\ UNCHANGED <<session, reading, queue, window, announced>>

GuiStep == \/ Dial \/ Register \/ Connected \/ ClosingEnds \/ Handle
           \/ \E s \in Ids : CloseReturns(s) \/ WriteFails(s)

CloseStep(s) == \/ \E c \in Closers : EnterOnce(c, s)
                \/ Unregister(s) \/ NotifyClosed(s)

ReaderStep(s) == DeliverData(s) \/ ReadClosed(s) \/ ReaderEnds(s)

Next == \/ GuiStep \/ Handshake \/ Written \/ Quit
        \/ \E w \in Windows : Connect(w) \/ Send(w) \/ \E dispose \in BOOLEAN : Disconnect(w, dispose)
        \/ \E s \in Ids : CloseStep(s) \/ ReaderStep(s) \/ Read(s) \/ ReadFails(s)

Spec == Init /\ [][Next]_vars

\* Goroutines and the event loop run and the dialer's timeout expires; the user
\* and the peer need not do anything.
Fairness == /\ WF_vars(GuiStep)
            /\ \A s \in Ids : WF_vars(CloseStep(s)) /\ WF_vars(ReaderStep(s))
FairSpec == Spec /\ Fairness

-----------------------------------------------------------------------------
TypeOK ==
  /\ gui \in [at : {"free", "dialing", "handshaking", "dialed", "connected", "writing",
                    "closing", "exited"},
              win : Windows \cup {NoWindow}, todo : SUBSET Ids, dispose : BOOLEAN]
  /\ seq \in 0..MaxSeq /\ sessions \subseteq 1..seq
  /\ conn \in [Ids -> {"none", "open", "closed"}]
  /\ once \in [Ids -> {"free", "done"} \cup Closers]
  /\ stage \in [Ids -> {"none", "closed", "removed"}]
  /\ reader \in [Ids -> {"none", "reading", "data", "ending", "gone"}]
  /\ received \in [Ids -> 0..MaxData]
  /\ queue \in Seq([kind : {"data", "closed"}, id : Ids])
  /\ winId \in [Windows -> 0..MaxSeq]
  /\ netcats \in [Ids -> Windows \cup {NoWindow}]
  /\ announced \in [Ids -> Nat]
  /\ printed \in [Ids -> {"nothing", "data", "closed"}]

Queued(s) == \E i \in DOMAIN queue : queue[i] = [kind |-> "closed", id |-> s]

\* A window that shows a session as connected will hear of its end: the session
\* is live, or being closed, or its net:closed event is still to be handled.
\* (The event may be posted before start has stored the id.)
NoZombieWindow ==
  \A w \in Windows : winId[w] # 0 =>
    /\ netcats[winId[w]] = w
    /\ winId[w] \in sessions \/ stage[winId[w]] # "none" \/ Queued(winId[w])

\* Nothing is printed in a window after its "[closed]" line, though the reader
\* may deliver a chunk after OnClose.
ClosedIsLast == [][\A s \in Ids : printed[s] = "closed" => printed'[s] = "closed"]_vars

\* When the application has shut down every connection is closed, also one whose
\* reader was closing it at that moment (CloseAll).
ShutdownLeavesNothing ==
  gui.at = "exited" => sessions = {} /\ \A s \in Ids : conn[s] # "open"

\* No window waits for the end of a session that is over, and the shutdown leaves
\* no session.
WindowsHearOfEnds == TypeOK /\ NoZombieWindow /\ ShutdownLeavesNothing

(* The inductive invariant behind the two.                                 *)

\* What is not opened yet has left no trace.
Unopened ==
  \A s \in Ids : s > seq =>
    /\ conn[s] = "none" /\ reader[s] = "none" /\ once[s] = "free"
    /\ netcats[s] = NoWindow /\ printed[s] = "nothing"

\* The once and the stages of the close inside it; a session is registered, and
\* its connection open, as long as they have not got to it; it is announced when
\* the once is done.
CloseInOrder ==
  \A s \in Ids :
    /\ once[s] \in Closers <=> stage[s] # "none"
    /\ s \in sessions <=> s <= seq /\ (once[s] = "free" \/ stage[s] = "closed")
    /\ conn[s] = "open" => once[s] = "free"
    /\ announced[s] = IF once[s] = "done" THEN 1 ELSE 0

\* While the GUI thread connects a window, that has no session, and the session
\* just opened has no window.
GuiBusy ==
  /\ gui.at = "free" => gui = Free
  /\ gui.at \in {"dialing", "handshaking", "dialed", "connected"} =>
       gui.win \in Windows /\ winId[gui.win] = 0
  /\ gui.at = "dialed" \/ gui.at = "dialing" \/ gui.at = "handshaking" => seq < MaxSeq
  /\ gui.at = "connected" => seq > 0 /\ netcats[seq] = NoWindow /\ printed[seq] = "nothing"
  /\ gui.at = "writing" => gui.win \in Windows /\ winId[gui.win] # 0
  /\ gui.at = "closing" => gui.todo \subseteq 1..seq
  /\ gui.at = "closing" /\ gui.win # NoWindow => winId[gui.win] # 0
  /\ gui.at = "closing" /\ gui.win = NoWindow => sessions \subseteq gui.todo
  /\ gui.at = "exited" => sessions = {}

\* A window that shows a session is where the session's events go.
Registered ==
  \A w \in Windows : winId[w] # 0 => winId[w] <= seq /\ netcats[winId[w]] = w

\* The end of a session that a window shows, or is about to show, is queued.
Shown(s) == (gui.at = "connected" /\ s = seq) \/ \E w \in Windows : winId[w] = s
EndsQueued == \A s \in Ids : once[s] = "done" /\ Shown(s) => Queued(s)

ClosedHasNoWindow == \A s \in Ids : printed[s] = "closed" => netcats[s] = NoWindow

IInv ==
  /\ TypeOK /\ Unopened /\ CloseInOrder /\ GuiBusy
  /\ Registered /\ EndsQueued /\ ClosedHasNoWindow

\* What holds the GUI thread without a deadline: a peer silent in a TLS
\* handshake, or one that reads nothing while Send writes to it.
HeldByPeer == \/ gui.at = "handshaking"
              \/ \E s \in Ids : Writing(s) /\ conn[s] = "open"

\* The GUI thread is never blocked for good by the goroutines it waits for (a
\* reader inside once.Do, a dialer), and a write comes back once the session's
\* reader has closed the connection: only a peer can hold it (HeldByPeer).
GuiComesBack ==
  gui # Free ~> gui = Free \/ gui.at = "exited" \/ HeldByPeer

\* netcat.go of Params.Timeout: it "bounds the connection attempt (and TLS
\* handshake)", so that Connect gives the GUI thread back.
HandshakeBounded == gui.at = "handshaking" ~> gui.at # "handshaking"

\* A session whose connection broke or was closed is announced, exactly once
\* ("OnClose is invoked exactly once when the session ends").
EndsAreAnnounced ==
  \A s \in Ids : reader[s] = "ending" ~> [](announced[s] = 1 /\ reader[s] = "gone")

\* Closing a session neither holds the GUI thread nor loses its announcement.
CloseNeverHangs == GuiComesBack /\ EndsAreAnnounced
=============================================================================
