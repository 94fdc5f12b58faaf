------------------------------ MODULE Desktop ------------------------------
(***************************************************************************)
(* From the keyboard to the screen: the keyboard interrupt (io/keyboard.c) *)
(* sends a message (proc/msg.c, proc/proc.c) to the process on display or, *)
(* for function keys, to the UI process.  The keyboard thread of the       *)
(* process (lib/internal/keyboard) takes it: a navigation key scrolls the  *)
(* terminal, a function key puts another process on display, anything else *)
(* goes through a ring buffer to the main thread, which prints it.  What   *)
(* is drawn goes to the buffer of the drawing context of the process and   *)
(* from there to video memory while the context is the current one         *)
(* (vbe/vbe.c).                                                            *)
(*                                                                         *)
(* The keyboard interrupt and the keyboard threads run on CPU 0, where     *)
(* system calls are not interrupted; the main threads run on any CPU.      *)
(* What happens under vbeContextLock or queueMutex is one step.  A buffer  *)
(* is a sequence of rows and every drawing call draws one row; the colour  *)
(* of a row is the key that was printed there.  The cursor and the         *)
(* scrollbar, other columns of the same rows drawn by the same calls, are  *)
(* left out.                                                               *)
(***************************************************************************)
EXTENDS Integers, Sequences, FiniteSets

CONSTANTS ScreenRows,      \* renderBufferHeight
          TerminalRows,    \* terminalHeight, the scrollable buffer
          FirstCapacity,   \* elements of the first buffer of the key queue
          Inputs           \* what the user may type: sequences of keys

ASSUME DesktopConstants ==
  /\ ScreenRows \in Nat \ {0} /\ TerminalRows \in Nat /\ TerminalRows > ScreenRows + 1
  /\ FirstCapacity \in Nat \ {0}

Apps == {"ui", "app"}                   \* processes that use the library
Procs == Apps \cup {"idle"}
vbeContext == [idle |-> 1, ui |-> 2, app |-> 3]
Contexts == 0 .. 4                      \* 0 is the kernel, 4 is nobody's

\* Function keys and the context they ask for; navigation keys; a letter.
FKeys == [f1 |-> 0, f2 |-> 1, f3 |-> 2, f4 |-> 3, f5 |-> 4]
NavKeys == {"home", "end"}
Keys == DOMAIN FKeys \cup NavKeys \cup {"a"}

\* Colours: blank, what the kernel and the idle process show, and memory that
\* was never written.  Printed letters are 1, 2, ...
BLANK == 0
KERNEL == -1
IDLE == -2
GARBAGE == -3

VARIABLES
  pressedKeys,      \* function keys held down
  receivedE0,       \* the last scan code was the prefix of a navigation key
  pressed,          \* the keys pressed so far, a prefix of one of Inputs
  messageQueue,     \* process: its messages [key, n], the oldest first
  processDisplayed, currentContext,
  started,          \* processes in processList
  contexts,         \* [cur : currentBuffer, prev : previousBuffer, scrollY]
  scrollY,          \* the copy of the current context's scroll position
  screen,           \* renderBuffer
  kbd,              \* keyboard thread: [pc, msg, y]
  queue,            \* key queue: [buf, count, front, back]
  term,             \* terminal: [scrollY, max : scrollYMax, row : currentRow]
  main,             \* main thread: [pc, n : letter to print]
  typed             \* letters the main thread has received, in order

kvars == <<pressedKeys, receivedE0, pressed>>
vvars == <<contexts, scrollY, screen, currentContext>>
vars == <<kvars, messageQueue, processDisplayed, started, vvars, kbd, queue,
          term, main, typed>>

NoMessage == [key |-> "none", n |-> 0]
Rows(n, colour) == [i \in 1 .. n |-> colour]
NewContext(colour) == [cur |-> Rows(ScreenRows, colour),
                       prev |-> Rows(ScreenRows, colour), scrollY |-> 0]

\* After module_init: the UI process is on display, its threads are to run.
Init ==
  /\ pressedKeys = {} /\ receivedE0 = FALSE /\ pressed = <<>>
  /\ messageQueue = [p \in Procs |-> <<>>]
  /\ processDisplayed = "ui" /\ currentContext = 2
  /\ started = {"idle", "ui"}
  /\ contexts = [c \in Contexts |->
                   NewContext(CASE c = 0 -> KERNEL [] c = 1 -> IDLE [] OTHER -> GARBAGE)]
  /\ scrollY = 0 /\ screen = Rows(ScreenRows, GARBAGE)
  /\ kbd = [p \in Apps |-> [pc |-> "poll", msg |-> NoMessage, y |-> 0]]
  /\ queue = [p \in Apps |-> [buf |-> <<>>, count |-> 0, front |-> 0, back |-> 0]]
  /\ term = [p \in Apps |-> [scrollY |-> 0, max |-> 0, row |-> 0]]
  /\ main = [p \in Apps |-> [pc |-> "start", n |-> 0]]
  /\ typed = [p \in Apps |-> <<>>]
-----------------------------------------------------------------------------
\* The drawing contexts.

Visible(c) == SubSeq(contexts[c].cur, contexts[c].scrollY + 1,
                     contexts[c].scrollY + ScreenRows)

\* _vbe_blit_to_video_memory of rows posY .. posY + height - 1 (from 0) of
\* context c with the buffers cs: only of the current context, only when the
\* first row is visible, and only where previousBuffer says the screen differs.
_vbe_blit_to_video_memory(cs, c, posY, height) ==
  LET rows == {r \in posY .. posY + height - 1 : r < scrollY + ScreenRows}
      differs == {r - scrollY + 1 : r \in
                    {r \in rows : cs[c].prev[r - scrollY + 1] # cs[c].cur[r + 1]}}
      new == [i \in 1 .. ScreenRows |-> cs[c].cur[i + scrollY]]
      Draw(old) == [i \in 1 .. ScreenRows |-> IF i \in differs THEN new[i] ELSE old[i]]
  IN IF c = currentContext /\ scrollY <= posY /\ posY < scrollY + ScreenRows
     THEN /\ contexts' = [cs EXCEPT ![c].prev = Draw(@)]
          /\ screen' = Draw(screen)
     ELSE contexts' = cs /\ UNCHANGED screen

\* Mutated form of vbe_show_context: previousBuffer keeps the old image.
ShowKeepsPrevious(c) ==
  /\ currentContext' = c /\ scrollY' = contexts[c].scrollY
  /\ screen' = Visible(c)
  /\ UNCHANGED contexts

\* vbe_show_context of a context that is in use.
vbe_show_context(c) ==
  /\ currentContext' = c /\ scrollY' = contexts[c].scrollY
  /\ screen' = Visible(c)
  /\ contexts' = [contexts EXCEPT ![c].prev = Visible(c)]

\* Mutated form of proc_display: the process keeps the keyboard.
DisplayOnly(c) ==
  /\ UNCHANGED processDisplayed
  /\ \/ c \in {0} \cup {vbeContext[p] : p \in started} /\ vbe_show_context(c)
     \/ c \notin {0} \cup {vbeContext[p] : p \in started} /\ UNCHANGED vvars

\* proc_display: the kernel's context is shown without taking the keyboard
\* away from the displayed process; a context without process is ignored.
proc_display(c) ==
  \/ c = 0 /\ vbe_show_context(0) /\ UNCHANGED processDisplayed
  \/ \E p \in started : /\ c = vbeContext[p]
                        /\ vbe_show_context(c) /\ processDisplayed' = p
  \/ /\ c # 0 /\ \A p \in started : c # vbeContext[p]
     /\ UNCHANGED <<vvars, processDisplayed>>
-----------------------------------------------------------------------------
\* The keyboard interrupt.

\* No keyboard thread is inside a system call on CPU 0.
CpuFree == \A p \in Apps : kbd[p].pc \notin {"locked", "blit"}

\* proc_send_message
proc_send_message(p, key, n) ==
  messageQueue' = [messageQueue EXCEPT ![p] = Append(@, [key |-> key, n |-> n])]

\* The key may be pressed next.
Pressable(key) ==
  \E s \in Inputs : /\ Len(pressed) < Len(s)
                    /\ Append(pressed, key) = SubSeq(s, 1, Len(pressed) + 1)

\* The prefix of a navigation key.
ScanE0 ==
  /\ CpuFree /\ ~receivedE0 /\ \E key \in NavKeys : Pressable(key)
  /\ receivedE0' = TRUE
  /\ UNCHANGED <<pressedKeys, pressed, messageQueue, processDisplayed, started,
                 vvars, kbd, queue, term, main, typed>>

\* _handle_key_press of a key that goes down, or repeats.  A function key that
\* is held down sends one message.
_handle_key_press(key) ==
  /\ CpuFree /\ Pressable(key)
  /\ receivedE0 <=> key \in NavKeys
  /\ receivedE0' = FALSE /\ pressed' = Append(pressed, key)
  /\ IF key \in DOMAIN FKeys
     THEN IF key \in pressedKeys THEN UNCHANGED messageQueue
          ELSE proc_send_message("ui", key, 0)
     ELSE proc_send_message(processDisplayed, key, Len(pressed'))
  /\ pressedKeys' = pressedKeys \cup ({key} \cap DOMAIN FKeys)
  /\ UNCHANGED <<processDisplayed, started, vvars, kbd, queue, term, main, typed>>

\* _handle_key_press of a key that goes up.
KeyRelease(key) ==
  /\ CpuFree /\ ~receivedE0 /\ key \in pressedKeys
  /\ pressedKeys' = pressedKeys \ {key}
  /\ UNCHANGED <<receivedE0, pressed, messageQueue, processDisplayed, started,
                 vvars, kbd, queue, term, main, typed>>
-----------------------------------------------------------------------------
\* The keyboard threads.

\* sys_next_message_type, until there is a message, and sys_next_message.
sys_next_message(p) ==
  /\ p \in started /\ CpuFree /\ kbd[p].pc = "poll" /\ messageQueue[p] # <<>>
  /\ kbd' = [kbd EXCEPT ![p].pc = "handle", ![p].msg = Head(messageQueue[p])]
  /\ messageQueue' = [messageQueue EXCEPT ![p] = Tail(@)]
  /\ UNCHANGED <<kvars, processDisplayed, started, vvars, queue, term, main, typed>>

Poll(p) == kbd' = [kbd EXCEPT ![p] = [pc |-> "poll", msg |-> NoMessage, y |-> 0]]

\* Mutated form of terminal_handle_navigation_key: a key that does not scroll
\* is not given up.
NavigationStuck(p) ==
  LET key == kbd[p].msg.key
      newScrollY == IF key = "end" THEN term[p].max ELSE 0
  IN /\ kbd[p].pc = "handle" /\ key \in NavKeys
     /\ newScrollY # term[p].scrollY
     /\ kbd' = [kbd EXCEPT ![p].pc = "scroll", ![p].y = newScrollY]
     /\ UNCHANGED <<kvars, messageQueue, processDisplayed, started, vvars, queue,
                    term, main, typed>>

\* terminal_handle_navigation_key: scroll unless the position is the same.
terminal_handle_navigation_key(p) ==
  LET key == kbd[p].msg.key
      newScrollY == IF key = "end" THEN term[p].max ELSE 0
  IN /\ kbd[p].pc = "handle" /\ key \in NavKeys
     /\ IF newScrollY = term[p].scrollY THEN Poll(p)
        ELSE kbd' = [kbd EXCEPT ![p].pc = "scroll", ![p].y = newScrollY]
     /\ UNCHANGED <<kvars, messageQueue, processDisplayed, started, vvars, queue,
                    term, main, typed>>

\* The scroll position the kernel uses for y.
Clamped(y, height) ==
  IF y >= height - ScreenRows THEN height - ScreenRows - 1 ELSE y

\* The position thread p scrolls to.
Target(p) == Clamped(kbd[p].y, Len(contexts[vbeContext[p]].cur))

\* vbe_set_scroll_position: the position in the context is written first ...
vbe_set_scroll_position(p) ==
  LET c == vbeContext[p] IN
  /\ kbd[p].pc = "scroll" /\ CpuFree
  /\ contexts' = [contexts EXCEPT ![c].scrollY = Target(p)]
  /\ kbd' = [kbd EXCEPT ![p].pc = "locked"]
  /\ UNCHANGED <<kvars, messageQueue, processDisplayed, started, scrollY, screen,
                 currentContext, queue, term, main, typed>>

\* ... then, under the lock, the copy, if the context is current ...
scroll_locked(p) ==
  LET c == vbeContext[p] IN
  /\ kbd[p].pc = "locked"
  /\ scrollY' = IF c = currentContext THEN Target(p) ELSE scrollY
  /\ kbd' = [kbd EXCEPT ![p].pc = "blit"]
  /\ UNCHANGED <<kvars, messageQueue, processDisplayed, started, contexts, screen,
                 currentContext, queue, term, main, typed>>

\* ... and the screen is drawn again.
scroll_blit(p) ==
  LET c == vbeContext[p] IN
  /\ kbd[p].pc = "blit"
  /\ _vbe_blit_to_video_memory(contexts, c, Target(p), ScreenRows)
  /\ term' = [term EXCEPT ![p].scrollY = kbd[p].y]
  /\ Poll(p)
  /\ UNCHANGED <<kvars, messageQueue, processDisplayed, started, scrollY,
                 currentContext, queue, main, typed>>

\* The UI has registered its handler for the function keys.
HandlerRegistered == main["ui"].pc \notin {"start", "clear", "clearblit"}

\* handle_window_switch: sys_set_displayed_process.
handle_window_switch ==
  /\ kbd["ui"].pc = "handle" /\ CpuFree /\ HandlerRegistered
  /\ kbd["ui"].msg.key \in DOMAIN FKeys
  /\ proc_display(FKeys[kbd["ui"].msg.key])
  /\ Poll("ui")
  /\ UNCHANGED <<kvars, messageQueue, started, queue, term, main, typed>>

\* The elements of a ring buffer, the front one first.
Elements(q) ==
  [i \in 1 .. q.count |-> q.buf[((q.front + i - 1) % Len(q.buf)) + 1]]

\* Mutated form of Grown: the elements are copied as they lie.
GrownInPlace(q) ==
  IF q.count < Len(q.buf) THEN q
  ELSE LET cap == IF q.buf = <<>> THEN FirstCapacity ELSE 2 * Len(q.buf) IN
       [q EXCEPT !.buf = @ \o [i \in 1 .. cap - q.count |-> NoMessage],
                 !.front = 0, !.back = q.count]

\* A larger buffer, with the elements moved to its beginning.
Grown(q) ==
  IF q.count < Len(q.buf) THEN q
  ELSE LET cap == IF q.buf = <<>> THEN FirstCapacity ELSE 2 * Len(q.buf) IN
       [q EXCEPT !.buf = Elements(q) \o [i \in 1 .. cap - q.count |-> NoMessage],
                 !.front = 0, !.back = q.count]

\* queue_add_element
queue_add_element(p) ==
  LET key == kbd[p].msg.key
      q == Grown(queue[p]) IN
  /\ kbd[p].pc = "handle"
  /\ key \notin NavKeys /\ (key \in DOMAIN FKeys => ~HandlerRegistered)
  /\ queue' = [queue EXCEPT ![p] =
                 [q EXCEPT !.buf[q.back + 1] = kbd[p].msg, !.count = @ + 1,
                           !.back = (@ + 1) % Len(q.buf)]]
  /\ Poll(p)
  /\ UNCHANGED <<kvars, messageQueue, processDisplayed, started, vvars, term,
                 main, typed>>
-----------------------------------------------------------------------------
\* The main threads.

\* sys_start_process: the second process appears, with context 3.
sys_start_process ==
  /\ main["ui"].pc = "idle" /\ "app" \notin started
  /\ started' = started \cup {"app"}
  /\ UNCHANGED <<kvars, messageQueue, processDisplayed, vvars, kbd, queue, term,
                 main, typed>>

\* vbe_allocate_scroll_buffer, called by terminal_init.  The screen is not drawn
\* again.  Without memory the terminal keeps the small buffer.
vbe_allocate_scroll_buffer(p, ok) ==
  LET c == vbeContext[p] IN
  /\ p \in started /\ main[p].pc = "start"
  /\ contexts' = IF ok THEN [contexts EXCEPT ![c].cur = Rows(TerminalRows, GARBAGE),
                                             ![c].scrollY = 0]
                 ELSE contexts
  /\ scrollY' = IF ok /\ c = currentContext THEN 0 ELSE scrollY
  /\ main' = [main EXCEPT ![p].pc = IF ok THEN "clear" ELSE "idle"]
  /\ UNCHANGED <<kvars, messageQueue, processDisplayed, started, screen,
                 currentContext, kbd, queue, term, typed>>

\* vbe_clear: the whole buffer, then the screen.
vbe_clear(p) ==
  LET c == vbeContext[p] IN
  /\ main[p].pc = "clear"
  /\ contexts' = [contexts EXCEPT ![c].cur = Rows(Len(@), BLANK)]
  /\ main' = [main EXCEPT ![p].pc = "clearblit"]
  /\ UNCHANGED <<kvars, messageQueue, processDisplayed, started, scrollY, screen,
                 currentContext, kbd, queue, term, typed>>

clear_blit(p) ==
  LET c == vbeContext[p] IN
  /\ main[p].pc = "clearblit"
  /\ _vbe_blit_to_video_memory(contexts, c, contexts[c].scrollY, ScreenRows)
  /\ term' = [term EXCEPT ![p].max = TerminalRows - ScreenRows]
  /\ main' = [main EXCEPT ![p].pc = "idle"]
  /\ UNCHANGED <<kvars, messageQueue, processDisplayed, started, scrollY,
                 currentContext, kbd, queue, typed>>

\* queue_retrieve, called by getline, which ignores everything but letters.
queue_retrieve(p) ==
  LET q == queue[p]
      msg == Head(Elements(q)) IN
  /\ main[p].pc = "idle" /\ q.count > 0
  /\ queue' = [queue EXCEPT ![p].count = @ - 1, ![p].front = (@ + 1) % Len(q.buf)]
  /\ IF msg.key = "a"
     THEN /\ main' = [main EXCEPT ![p] = [pc |-> "print", n |-> msg.n]]
          /\ typed' = [typed EXCEPT ![p] = Append(@, msg.n)]
     ELSE UNCHANGED <<main, typed>>
  /\ UNCHANGED <<kvars, messageQueue, processDisplayed, started, vvars, kbd, term>>

\* vbe_render_char, called by terminal_putc, in the current row if that is in
\* the buffer.
vbe_render_char(p) ==
  LET c == vbeContext[p]
      row == term[p].row IN
  /\ main[p].pc = "print"
  /\ contexts' = IF row < Len(contexts[c].cur)
                 THEN [contexts EXCEPT ![c].cur[row + 1] = main[p].n] ELSE contexts
  /\ main' = [main EXCEPT ![p].pc = "blit"]
  /\ UNCHANGED <<kvars, messageQueue, processDisplayed, started, scrollY, screen,
                 currentContext, kbd, queue, term, typed>>

\* The row is brought to the screen, and the next one becomes current.
render_blit(p) ==
  LET c == vbeContext[p]
      row == term[p].row IN
  /\ main[p].pc = "blit"
  /\ IF row < Len(contexts[c].cur)
     THEN _vbe_blit_to_video_memory(contexts, c, row, 1)
     ELSE UNCHANGED <<contexts, screen>>
  /\ term' = [term EXCEPT ![p].row = (@ + 1) % TerminalRows]
  /\ main' = [main EXCEPT ![p].pc = "idle"]
  /\ UNCHANGED <<kvars, messageQueue, processDisplayed, started, scrollY,
                 currentContext, kbd, queue, typed>>
-----------------------------------------------------------------------------
Keyboard == ScanE0 \/ \E key \in Keys : _handle_key_press(key) \/ KeyRelease(key)

KeyboardThread(p) ==
  \/ sys_next_message(p) \/ terminal_handle_navigation_key(p)
  \/ vbe_set_scroll_position(p) \/ scroll_locked(p) \/ scroll_blit(p)
  \/ queue_add_element(p)
  \/ p = "ui" /\ handle_window_switch

MainThread(p) ==
  \/ \E ok \in BOOLEAN : vbe_allocate_scroll_buffer(p, ok)
  \/ vbe_clear(p) \/ clear_blit(p) \/ queue_retrieve(p)
  \/ vbe_render_char(p) \/ render_blit(p)

Next == Keyboard \/ sys_start_process
        \/ \E p \in Apps : KeyboardThread(p) \/ MainThread(p)

Spec == Init /\ [][Next]_vars

\* The scheduler runs every ready thread again and again (see Sched).
FairSpec == Spec /\ \A p \in Apps : WF_vars(KeyboardThread(p)) /\ WF_vars(MainThread(p))
-----------------------------------------------------------------------------
Letters(msgs) ==
  LET is(m) == m.key = "a"
      s == SelectSeq(msgs, is)
  IN [i \in DOMAIN s |-> s[i].n]

\* Letters on their way to the main thread of p.
Underway(p) == Letters(Elements(queue[p]) \o <<kbd[p].msg>> \o messageQueue[p])

MaxPresses == CHOOSE m \in {Len(s) : s \in Inputs} : \A s \in Inputs : Len(s) <= m

UiKeys  == INSTANCE PacketFifo WITH
             Packets <- 1 .. MaxPresses, q <- Underway("ui"), out <- typed["ui"]
AppKeys == INSTANCE PacketFifo WITH
             Packets <- 1 .. MaxPresses, q <- Underway("app"), out <- typed["app"]

\* Types; every context shows rows it has.
TypeOK ==
  /\ pressedKeys \subseteq DOMAIN FKeys /\ receivedE0 \in BOOLEAN
  /\ processDisplayed \in started /\ currentContext \in Contexts
  /\ \A c \in Contexts : contexts[c].scrollY \in 0 .. Len(contexts[c].cur) - ScreenRows
  /\ Len(screen) = ScreenRows
  /\ \A p \in Apps :
       /\ queue[p].count \in 0 .. Len(queue[p].buf)
       /\ term[p].row \in 0 .. TerminalRows - 1
       /\ main[p].pc \in {"start", "clear", "clearblit", "idle", "print", "blit"}

\* vbe.c calls previousBuffer a "copy of what is rendered on the screen", and
\* the blit relies on it.
PreviousIsScreen == contexts[currentContext].prev = screen

\* The screen shows the visible part of the current context, but for a row its
\* main thread has drawn and not brought to the screen yet, a scroll or a start
\* under way: no interleaving of drawing, scrolling and switching between
\* processes leaves an old image behind (vbe_show_context and the blit).
ScreenShowsContext ==
  LET c == currentContext
      owner == {p \in Apps : vbeContext[p] = c}
      pending == {i \in 1 .. ScreenRows : \E p \in owner :
                    main[p].pc = "blit" /\ term[p].row = scrollY + i - 1}
  IN /\ TypeOK
     /\ PreviousIsScreen
     /\ \/ \E p \in owner : main[p].pc \in {"clear", "clearblit"}
                              \/ kbd[p].pc \in {"locked", "blit"}
        \/ /\ scrollY = contexts[c].scrollY
           /\ \A i \in 1 .. ScreenRows : i \in pending \/ screen[i] = Visible(c)[i]

\* Keyboard input goes to the process that is on the screen, or to the one that
\* was there before the kernel's own context (proc_display).
DisplayedHasKeyboard ==
  currentContext \in {0, vbeContext[processDisplayed]}

\* Letters typed while a process has the keyboard reach its main thread once
\* each and in order, through the message queue, the hands of the keyboard
\* thread and a ring buffer that is replaced by a larger one when it is full.
KeysInOrder == UiKeys!Spec /\ AppKeys!Spec

\* Every key takes effect: when the user stops, the messages of the running
\* processes are all taken, the letters printed and the scrolling done, whatever
\* the threads were doing when the keys were pressed.
Handled == \A p \in Apps \cap started :
             /\ messageQueue[p] = <<>> /\ kbd[p].pc = "poll"
             /\ queue[p].count = 0 /\ main[p].pc = "idle"
KeysTakeEffect == <>[]Handled
=============================================================================
