--------------------------- MODULE DesktopProofs ----------------------------
(***************************************************************************)
(* What the display and the keyboard rely on, for a screen and a terminal  *)
(* of any height and whatever is typed: the previousBuffer of the current  *)
(* context is the image on the screen, the process on the screen has the   *)
(* keyboard, and the screen shows the current context.                     *)
(*                                                                         *)
(* All are about the current context, which changes: the invariant needs   *)
(* the contexts to be records of their own, so that drawing in one leaves  *)
(* the others alone, and the displayed process to be one that exists.      *)
(*                                                                         *)
(* That the screen shows the current context needs more.  TerminalInv says *)
(* how the rows of a terminal and its scroll position relate while its two *)
(* threads are in the middle of starting, drawing or scrolling, and Shown  *)
(* which rows may then be out of date.  A step of the threads of one       *)
(* process disturbs the others only through the screen (Elsewhere).        *)
(***************************************************************************)
EXTENDS Desktop, SequenceTheorems, TLAPS

ContextRecord(x) == x = [cur |-> x.cur, prev |-> x.prev, scrollY |-> x.scrollY]

Shapes ==
  /\ contexts = [c \in Contexts |-> contexts[c]]
  /\ \A c \in Contexts : ContextRecord(contexts[c])
  /\ currentContext \in Contexts
  /\ processDisplayed \in Procs /\ started \subseteq Procs

IInv == Shapes /\ PreviousIsScreen /\ DisplayedHasKeyboard

\* The context of a process is one of the contexts.
LEMMA ContextOfProcess == \A p \in Procs : vbeContext[p] \in Contexts
BY DEF Procs, Apps, vbeContext, Contexts

\* The UI process is on display and its context was never drawn.
LEMMA InitIInv == Init => IInv
<1> SUFFICES ASSUME Init PROVE IInv
  OBVIOUS
<1>1. \A c \in Contexts : contexts[c] =
        NewContext(CASE c = 0 -> KERNEL [] c = 1 -> IDLE [] OTHER -> GARBAGE)
  BY DEF Init
<1>2. contexts[2] = NewContext(GARBAGE)
  BY <1>1 DEF Contexts
<1>3. PreviousIsScreen
  BY <1>2 DEF Init, NewContext, PreviousIsScreen
<1>4. \A c \in Contexts : ContextRecord(contexts[c])
  <2>1. \A colour : ContextRecord(NewContext(colour))
    BY DEF NewContext, ContextRecord
  <2> QED
    BY <1>1, <2>1
<1>5. contexts = [c \in Contexts |-> contexts[c]]
  BY DEF Init
<1>6. currentContext \in Contexts /\ processDisplayed \in Procs /\ started \subseteq Procs
  BY DEF Init, Contexts, Procs, Apps
<1>7. DisplayedHasKeyboard
  BY DEF Init, DisplayedHasKeyboard, vbeContext
<1> QED
  BY <1>3, <1>4, <1>5, <1>6, <1>7 DEF IInv, Shapes

\* A step that keeps the current context, its previousBuffer and the screen.
Steady ==
  /\ UNCHANGED <<currentContext, processDisplayed, screen>>
  /\ \A c \in Contexts : contexts'[c].prev = contexts[c].prev /\ ContextRecord(contexts'[c])
  /\ contexts' = [c \in Contexts |-> contexts'[c]]
  /\ started' \subseteq Procs

LEMMA SteadyKeeps == IInv /\ Steady => IInv'
BY DEF IInv, Steady, Shapes, PreviousIsScreen, DisplayedHasKeyboard

\* The blit writes the same rows to previousBuffer and to the screen.
LEMMA BlitKeeps ==
  ASSUME IInv, NEW c \in Contexts, NEW posY, NEW height,
         _vbe_blit_to_video_memory(contexts, c, posY, height),
         UNCHANGED <<currentContext, processDisplayed, started>>
  PROVE  IInv'
<1> DEFINE rows == {r \in posY .. posY + height - 1 : r < scrollY + ScreenRows}
           differs == {r - scrollY + 1 : r \in
                    {r \in rows : contexts[c].prev[r - scrollY + 1] # contexts[c].cur[r + 1]}}
           new == [i \in 1 .. ScreenRows |-> contexts[c].cur[i + scrollY]]
           Draw(old) == [i \in 1 .. ScreenRows |-> IF i \in differs THEN new[i] ELSE old[i]]
<1>1. CASE c = currentContext /\ scrollY <= posY /\ posY < scrollY + ScreenRows
  <2> HIDE DEF rows, differs, new
  <2>1. contexts' = [contexts EXCEPT ![c].prev = Draw(contexts[c].prev)] /\ screen' = Draw(screen)
    BY <1>1 DEF _vbe_blit_to_video_memory, rows, differs, new
  <2>2. contexts[c].prev = screen
    BY <1>1 DEF IInv, PreviousIsScreen
  <2> HIDE DEF Draw
  <2>3. contexts'[c].prev = screen'
    BY <2>1, <2>2 DEF IInv, Shapes, ContextRecord
  <2> QED
    BY <1>1, <2>1, <2>3 DEF IInv, Shapes, ContextRecord, PreviousIsScreen, DisplayedHasKeyboard
<1>2. CASE ~(c = currentContext /\ scrollY <= posY /\ posY < scrollY + ScreenRows)
  <2>1. contexts' = contexts /\ screen' = screen
    BY <1>2 DEF _vbe_blit_to_video_memory
  <2> QED
    BY <2>1 DEF IInv, Shapes, PreviousIsScreen, DisplayedHasKeyboard
<1> QED
  BY <1>1, <1>2

\* The context a window switch shows is the one of the displayed process, or the
\* kernel's.
LEMMA DisplayKeeps ==
  ASSUME IInv, NEW c \in Contexts, proc_display(c), UNCHANGED started
  PROVE  IInv'
<1>1. ASSUME NEW d \in Contexts, vbe_show_context(d)
      PROVE  /\ contexts' = [e \in Contexts |-> contexts'[e]]
             /\ \A e \in Contexts : ContextRecord(contexts'[e])
             /\ currentContext' = d /\ PreviousIsScreen'
  <2> HIDE DEF Visible
  <2>1. contexts' = [contexts EXCEPT ![d].prev = Visible(d)] /\ screen' = Visible(d)
    BY <1>1 DEF vbe_show_context
  <2>2. currentContext' = d
    BY <1>1 DEF vbe_show_context
  <2> QED
    BY <2>1, <2>2 DEF IInv, Shapes, ContextRecord, PreviousIsScreen
<1>2. CASE c = 0 /\ vbe_show_context(0) /\ UNCHANGED processDisplayed
  BY <1>1, <1>2 DEF IInv, Shapes, DisplayedHasKeyboard
<1>3. ASSUME NEW p \in started, c = vbeContext[p], vbe_show_context(c), processDisplayed' = p
      PROVE  IInv'
  BY <1>1, <1>3 DEF IInv, Shapes, DisplayedHasKeyboard
<1>4. CASE UNCHANGED <<vvars, processDisplayed>>
  BY <1>4 DEF vvars, IInv, Shapes, PreviousIsScreen, DisplayedHasKeyboard
<1> QED
  BY <1>2, <1>3, <1>4 DEF proc_display

\* One step of the keyboard interrupt, of a keyboard thread or of a main thread.
LEMMA NextIInv == IInv /\ [Next]_vars => IInv'
<1> SUFFICES ASSUME IInv, [Next]_vars PROVE IInv'
  OBVIOUS
<1>1. UNCHANGED <<contexts, currentContext, processDisplayed, screen>>
        /\ started' \subseteq Procs => Steady
  BY DEF Steady, IInv, Shapes
<1>2. CASE Keyboard
  BY <1>1, <1>2, SteadyKeeps
     DEF Keyboard, ScanE0, _handle_key_press, KeyRelease, vvars, IInv, Shapes
<1>3. CASE sys_start_process
  BY <1>1, <1>3, SteadyKeeps DEF sys_start_process, vvars, IInv, Shapes, Procs, Apps
<1>4. ASSUME NEW p \in Apps, KeyboardThread(p) PROVE IInv'
  <2>1. vbeContext[p] \in Contexts
    BY ContextOfProcess DEF Procs
  <2>2. CASE sys_next_message(p) \/ terminal_handle_navigation_key(p) \/ queue_add_element(p)
    BY <1>1, <2>2, SteadyKeeps
       DEF sys_next_message, terminal_handle_navigation_key, queue_add_element, vvars, IInv, Shapes
  <2>3. CASE vbe_set_scroll_position(p)
    <3>1. PICK y : contexts' = [contexts EXCEPT ![vbeContext[p]].scrollY = y]
      BY <2>3, Zenon DEF vbe_set_scroll_position
    <3>2. UNCHANGED <<currentContext, processDisplayed, screen, started>>
      BY <2>3 DEF vbe_set_scroll_position
    <3>3. Steady
      BY <2>1, <3>1, <3>2 DEF Steady, IInv, Shapes, ContextRecord
    <3> QED
      BY <3>3, SteadyKeeps
  <2>4. CASE scroll_locked(p)
    BY <1>1, <2>4, SteadyKeeps DEF scroll_locked, IInv, Shapes
  <2>5. CASE scroll_blit(p)
    BY <2>1, <2>5, BlitKeeps DEF scroll_blit
  <2>6. CASE handle_window_switch
    <3>1. \A k \in DOMAIN FKeys : FKeys[k] \in Contexts
      BY DEF FKeys, Contexts
    <3> QED
      BY <2>6, <3>1, DisplayKeeps DEF handle_window_switch
  <2> QED
    BY <1>4, <2>2, <2>3, <2>4, <2>5, <2>6 DEF KeyboardThread
<1>5. ASSUME NEW p \in Apps, MainThread(p) PROVE IInv'
  <2>1. vbeContext[p] \in Contexts
    BY ContextOfProcess DEF Procs
  <2>2. ASSUME NEW ok \in BOOLEAN, vbe_allocate_scroll_buffer(p, ok) PROVE IInv'
    <3>1. UNCHANGED <<currentContext, processDisplayed, screen, started>>
      BY <2>2 DEF vbe_allocate_scroll_buffer
    <3>2. CASE ok
      <4>1. contexts' = [contexts EXCEPT ![vbeContext[p]].cur = Rows(TerminalRows, GARBAGE),
                                         ![vbeContext[p]].scrollY = 0]
        BY <2>2, <3>2 DEF vbe_allocate_scroll_buffer
      <4>2. Steady
        <5>1. \A e \in Contexts : contexts'[e] =
                IF e = vbeContext[p]
                THEN [contexts[e] EXCEPT !.cur = Rows(TerminalRows, GARBAGE), !.scrollY = 0]
                ELSE contexts[e]
          BY <2>1, <4>1, Zenon DEF IInv, Shapes, ContextRecord
        <5>2. \A e \in Contexts : contexts'[e].prev = contexts[e].prev /\ ContextRecord(contexts'[e])
          BY <5>1, Zenon DEF IInv, Shapes, ContextRecord
        <5>3. contexts' = [e \in Contexts |-> contexts'[e]]
          BY <4>1, Zenon DEF IInv, Shapes
        <5> QED
          BY <3>1, <5>2, <5>3 DEF Steady, IInv, Shapes
      <4> QED
        BY <4>2, SteadyKeeps
    <3>3. CASE ~ok
      BY <1>1, <2>2, <3>1, <3>3, SteadyKeeps DEF vbe_allocate_scroll_buffer, IInv, Shapes
    <3> QED
      BY <3>2, <3>3
  <2>3. CASE vbe_clear(p) \/ vbe_render_char(p)
    <3>1. UNCHANGED <<currentContext, processDisplayed, screen, started>>
      BY <2>3 DEF vbe_clear, vbe_render_char
    <3>2. contexts' = contexts \/ \E rows : contexts' = [contexts EXCEPT ![vbeContext[p]].cur = rows]
      BY <2>3, Zenon DEF vbe_clear, vbe_render_char
    <3>3. CASE contexts' = contexts
      BY <1>1, <3>1, <3>3, SteadyKeeps DEF IInv, Shapes
    <3>4. ASSUME NEW rows, contexts' = [contexts EXCEPT ![vbeContext[p]].cur = rows]
          PROVE  IInv'
      <4>1. Steady
        BY <2>1, <3>1, <3>4 DEF Steady, IInv, Shapes, ContextRecord
      <4> QED
        BY <4>1, SteadyKeeps
    <3> QED
      BY <3>2, <3>3, <3>4, Zenon
  <2>4. CASE clear_blit(p)
    BY <2>1, <2>4, BlitKeeps DEF clear_blit
  <2>5. CASE queue_retrieve(p)
    BY <1>1, <2>5, SteadyKeeps DEF queue_retrieve, vvars, IInv, Shapes
  <2>6. CASE render_blit(p)
    <3>1. CASE term[p].row < Len(contexts[vbeContext[p]].cur)
      BY <2>1, <2>6, <3>1, BlitKeeps DEF render_blit
    <3>2. CASE ~(term[p].row < Len(contexts[vbeContext[p]].cur))
      BY <1>1, <2>6, <3>2, SteadyKeeps DEF render_blit, IInv, Shapes
    <3> QED
      BY <3>1, <3>2
  <2> QED
    BY <1>5, <2>2, <2>3, <2>4, <2>5, <2>6 DEF MainThread
<1>6. CASE UNCHANGED vars
  BY <1>1, <1>6, SteadyKeeps DEF vars, vvars, IInv, Shapes
<1> QED
  BY <1>2, <1>3, <1>4, <1>5, <1>6 DEF Next

\* The previousBuffer of the current context is what is rendered on the screen,
\* as the comment in vbe.c says and the blit relies on, through every drawing
\* call, scroll and window switch.
THEOREM PreviousMirrorsScreen == Spec => []PreviousIsScreen
BY InitIInv, NextIInv, PTL DEF Spec, IInv

\* The process whose context is shown has the keyboard, except while the kernel's
\* own context is shown (proc_display).
THEOREM DisplayedProcessHasKeyboard == Spec => []DisplayedHasKeyboard
BY InitIInv, NextIInv, PTL DEF Spec, IInv
-----------------------------------------------------------------------------
\* What the screen shows.

\* A buffer of h rows.
Buffer(s, h) == s = [i \in 1 .. h |-> s[i]]

\* The threads of a process and their terminal are records of their own.
Threads ==
  /\ kbd = [p \in Apps |-> kbd[p]] /\ main = [p \in Apps |-> main[p]]
  /\ term = [p \in Apps |-> term[p]] /\ queue = [p \in Apps |-> queue[p]]
  /\ \A p \in Apps :
       /\ kbd[p] = [pc |-> kbd[p].pc, msg |-> kbd[p].msg, y |-> kbd[p].y]
       /\ main[p] = [pc |-> main[p].pc, n |-> main[p].n]
       /\ term[p] = [scrollY |-> term[p].scrollY, max |-> term[p].max, row |-> term[p].row]
       /\ queue[p] = [buf |-> queue[p].buf, count |-> queue[p].count,
                      front |-> queue[p].front, back |-> queue[p].back]

\* A ring buffer never holds more than it has room for.
Room(q) == \E h \in Nat : Buffer(q.buf, h) /\ q.count \in 0 .. h

\* The terminal of p has not scrolled, or has the large buffer and may have: the
\* kernel's position is the clamped one while it is written in two places.
Still(p) ==
  /\ term[p].max = 0 /\ term[p].scrollY = 0 /\ contexts[vbeContext[p]].scrollY = 0
  /\ kbd[p].pc \notin {"scroll", "locked", "blit"}
Scrolls(p) ==
  /\ term[p].max = TerminalRows - ScreenRows /\ term[p].scrollY \in Nat
  /\ contexts[vbeContext[p]].scrollY \in 0 .. TerminalRows - ScreenRows - 1
  /\ kbd[p].pc \in {"scroll", "locked", "blit"} => kbd[p].y \in Nat
  /\ kbd[p].pc \in {"locked", "blit"} =>
       contexts[vbeContext[p]].scrollY = Clamped(kbd[p].y, TerminalRows)

Started(p) == main[p].pc \in {"idle", "print", "blit"}

TerminalInv(p) ==
  LET cur == contexts[vbeContext[p]].cur IN
  /\ term[p].row \in 0 .. TerminalRows - 1
  /\ \/ (main[p].pc = "start" \/ Started(p)) /\ Buffer(cur, ScreenRows) /\ Still(p)
     \/ main[p].pc \in {"clear", "clearblit"} /\ Buffer(cur, TerminalRows) /\ Still(p)
     \/ Started(p) /\ Buffer(cur, TerminalRows) /\ Scrolls(p)

\* The contexts that no thread draws in.
Undrawn == \A c \in Contexts : (\A p \in Apps : c # vbeContext[p]) =>
             Buffer(contexts[c].cur, ScreenRows) /\ contexts[c].scrollY = 0

Owns(p) == vbeContext[p] = currentContext
Busy(p) == main[p].pc \in {"clear", "clearblit"} \/ kbd[p].pc \in {"locked", "blit"}

\* The copy of the scroll position is right except between the two writes, and
\* the rows of the screen are right, but for one that was drawn and not brought
\* there yet, unless a redrawing of the whole screen is to come.
PositionCopied ==
  (\A p \in Apps : Owns(p) => kbd[p].pc # "locked") => scrollY = contexts[currentContext].scrollY
Image ==
  \A i \in 1 .. ScreenRows :
    \/ \E p \in Apps : Owns(p) /\ main[p].pc = "blit" /\ term[p].row = scrollY + i - 1
    \/ screen[i] = contexts[currentContext].cur[scrollY + i]
Shown == PositionCopied /\ ((\A p \in Apps : Owns(p) => ~Busy(p)) => Image)

Ranges ==
  /\ pressedKeys \subseteq DOMAIN FKeys /\ receivedE0 \in BOOLEAN
  /\ processDisplayed \in started
  /\ \A p \in Apps : Room(queue[p])

ScreenInv ==
  /\ IInv /\ Threads /\ Ranges /\ Undrawn
  /\ Buffer(screen, ScreenRows)
  /\ \A p \in Apps : TerminalInv(p)
  /\ Shown

\* A buffer is a sequence of as many rows.
LEMMA BufferIsSeq ==
  ASSUME NEW h \in Nat, NEW s, Buffer(s, h)
  PROVE  s \in Seq({s[i] : i \in 1 .. h}) /\ Len(s) = h /\ DOMAIN s = 1 .. h
<1>1. s \in [1 .. h -> {s[i] : i \in 1 .. h}]
  BY DEF Buffer
<1>2. s \in Seq({s[i] : i \in 1 .. h})
  BY <1>1
<1>3. Len(s) \in Nat /\ DOMAIN s = 1 .. Len(s) /\ DOMAIN s = 1 .. h
  BY <1>1, <1>2
<1> DEFINE n == Len(s)
<1> HIDE DEF n
<1>4. n \in Nat /\ 1 .. n = 1 .. h
  BY <1>3, Zenon DEF n
<1>5. n = h
  <2>1. n > h => n \in 1 .. h
    BY <1>4
  <2>2. h > n => h \in 1 .. n
    BY <1>4
  <2> QED
    BY <1>4, <2>1, <2>2
<1> QED
  BY <1>2, <1>3, <1>5, Zenon DEF n

\* And the other way round.
LEMMA SeqIsBuffer ==
  ASSUME NEW S, NEW s \in Seq(S)
  PROVE  Buffer(s, Len(s))
BY DEF Buffer

\* The visible part of a buffer is as high as the screen.
LEMMA PartOfBuffer ==
  ASSUME NEW h \in Nat, NEW s, Buffer(s, h), NEW y \in 0 .. h - ScreenRows
  PROVE  /\ Buffer(SubSeq(s, y + 1, y + ScreenRows), ScreenRows)
         /\ \A i \in 1 .. ScreenRows : SubSeq(s, y + 1, y + ScreenRows)[i] = s[y + i]
<1> DEFINE v == SubSeq(s, y + 1, y + ScreenRows)
<1>1. s \in Seq({s[i] : i \in 1 .. h}) /\ Len(s) = h
  BY BufferIsSeq
<1>2. /\ v \in Seq({s[i] : i \in 1 .. h}) /\ Len(v) = ScreenRows
      /\ \A i \in 1 .. ScreenRows : v[i] = s[y + i]
  <2> HIDE DEF v
  <2>1. \A i \in y + 1 .. y + ScreenRows : s[i] \in {s[j] : j \in 1 .. h}
    BY DesktopConstants
  <2>2. /\ v \in Seq({s[i] : i \in 1 .. h})
        /\ Len(v) = IF y + 1 <= y + ScreenRows THEN (y + ScreenRows) - (y + 1) + 1 ELSE 0
        /\ \A i \in 1 .. (y + ScreenRows) - (y + 1) + 1 : v[i] = s[(y + 1) + i - 1]
    BY <2>1, DesktopConstants, SubSeqProperties DEF v
  <2>3. (y + ScreenRows) - (y + 1) + 1 = ScreenRows /\ y + 1 <= y + ScreenRows
    BY DesktopConstants
  <2>4. \A i \in 1 .. ScreenRows : (y + 1) + i - 1 = y + i
    BY DesktopConstants
  <2>5. \A i \in 1 .. ScreenRows : v[i] = s[(y + 1) + i - 1]
    BY <2>2, <2>3
  <2> QED
    BY <2>2, <2>3, <2>4, <2>5
<1>3. Buffer(v, ScreenRows)
  BY <1>2, SeqIsBuffer, Zenon
<1> QED
  BY <1>2, <1>3

\* Filled rows.
LEMMA RowsAreBuffer ==
  ASSUME NEW h \in Nat, NEW colour
  PROVE  Buffer(Rows(h, colour), h) /\ \A i \in 1 .. h : Rows(h, colour)[i] = colour
BY DEF Buffer, Rows

\* Every process draws in a context of its own.
LEMMA ContextsApart ==
  /\ \A p \in Apps : vbeContext[p] \in Contexts
  /\ \A p, q \in Apps : vbeContext[p] = vbeContext[q] => p = q
BY DEF Apps, vbeContext, Contexts

\* Every context has one of two heights and shows rows it has.
LEMMA Heights ==
  ASSUME ScreenInv, NEW c \in Contexts
  PROVE  \E h \in {ScreenRows, TerminalRows} :
           /\ Buffer(contexts[c].cur, h) /\ h \in Nat
           /\ contexts[c].scrollY \in 0 .. h - ScreenRows
<1>1. CASE \A p \in Apps : c # vbeContext[p]
  BY <1>1, DesktopConstants DEF ScreenInv, Undrawn
<1>2. ASSUME NEW p \in Apps, c = vbeContext[p]
      PROVE  \E h \in {ScreenRows, TerminalRows} :
               /\ Buffer(contexts[c].cur, h) /\ h \in Nat
               /\ contexts[c].scrollY \in 0 .. h - ScreenRows
  <2>1. TerminalInv(p)
    BY DEF ScreenInv
  <2> QED
    BY <1>2, <2>1, DesktopConstants DEF TerminalInv, Still, Scrolls
<1> QED
  BY <1>1, <1>2

\* The invariant is what the screen needs.
LEMMA ScreenInvEnough == ScreenInv => ScreenShowsContext
<1> SUFFICES ASSUME ScreenInv PROVE ScreenShowsContext
  OBVIOUS
<1>1. \A c \in Contexts : contexts[c].scrollY \in 0 .. Len(contexts[c].cur) - ScreenRows
  BY Heights, BufferIsSeq, Zenon
<1>2. TypeOK
  <2>1. Len(screen) = ScreenRows
    BY BufferIsSeq, DesktopConstants, Zenon DEF ScreenInv
  <2>2. \A p \in Apps : queue[p].count \in 0 .. Len(queue[p].buf)
    BY BufferIsSeq, Zenon DEF ScreenInv, Ranges, Room
  <2>3. \A p \in Apps : /\ term[p].row \in 0 .. TerminalRows - 1
                        /\ main[p].pc \in {"start", "clear", "clearblit", "idle", "print", "blit"}
    BY DEF ScreenInv, TerminalInv, Started
  <2>4. /\ pressedKeys \subseteq DOMAIN FKeys /\ receivedE0 \in BOOLEAN
        /\ processDisplayed \in started /\ currentContext \in Contexts
    BY DEF ScreenInv, Ranges, IInv, Shapes
  <2> QED
    BY <1>1, <2>1, <2>2, <2>3, <2>4, Zenon DEF TypeOK
<1>3. PreviousIsScreen
  BY DEF ScreenInv, IInv
<1>4. ASSUME \A p \in Apps : Owns(p) => ~Busy(p)
      PROVE  /\ scrollY = contexts[currentContext].scrollY
             /\ \A i \in 1 .. ScreenRows :
                  \/ \E p \in Apps : Owns(p) /\ main[p].pc = "blit" /\ term[p].row = scrollY + i - 1
                  \/ screen[i] = Visible(currentContext)[i]
  <2>1. scrollY = contexts[currentContext].scrollY
    BY <1>4 DEF ScreenInv, Shown, PositionCopied, Busy
  <2>2. Image
    BY <1>4, Zenon DEF ScreenInv, Shown
  <2>3. currentContext \in Contexts
    BY DEF ScreenInv, IInv, Shapes
  <2>4. \A i \in 1 .. ScreenRows :
          Visible(currentContext)[i] = contexts[currentContext].cur[scrollY + i]
    <3>1. PICK h \in {ScreenRows, TerminalRows} :
             /\ Buffer(contexts[currentContext].cur, h) /\ h \in Nat
             /\ contexts[currentContext].scrollY \in 0 .. h - ScreenRows
      BY <2>3, Heights
    <3> QED
      BY <2>1, <3>1, PartOfBuffer, Zenon DEF Visible
  <2> QED
    BY <2>1, <2>2, <2>4, Zenon DEF Image
<1> QED
  BY <1>2, <1>3, <1>4 DEF ScreenShowsContext, Owns, Busy

\* Nothing is drawn yet, and the screen shows what the context of the UI has.
LEMMA InitScreen == Init => ScreenInv
<1> SUFFICES ASSUME Init PROVE ScreenInv
  OBVIOUS
<1>1. IInv
  BY InitIInv
<1>2. \A c \in Contexts : \E colour : contexts[c] = NewContext(colour)
  BY DEF Init
<1>3. \A c \in Contexts : Buffer(contexts[c].cur, ScreenRows) /\ contexts[c].scrollY = 0
  <2>1. ScreenRows \in Nat
    BY DesktopConstants
  <2>2. \A colour : /\ NewContext(colour).cur = Rows(ScreenRows, colour)
                    /\ NewContext(colour).scrollY = 0
    BY DEF NewContext
  <2>3. \A colour : Buffer(Rows(ScreenRows, colour), ScreenRows)
    BY <2>1, RowsAreBuffer
  <2>4. ASSUME NEW c \in Contexts
        PROVE  Buffer(contexts[c].cur, ScreenRows) /\ contexts[c].scrollY = 0
    <3>1. PICK colour : contexts[c] = NewContext(colour)
      BY <1>2
    <3> QED
      BY <2>2, <2>3, <3>1, Zenon
  <2> QED
    BY <2>4
<1>4. Threads
  <2>1. /\ kbd = [p \in Apps |-> kbd[p]] /\ main = [p \in Apps |-> main[p]]
        /\ term = [p \in Apps |-> term[p]] /\ queue = [p \in Apps |-> queue[p]]
    BY DEF Init
  <2>2. ASSUME NEW p \in Apps
        PROVE  /\ kbd[p] = [pc |-> "poll", msg |-> NoMessage, y |-> 0]
               /\ main[p] = [pc |-> "start", n |-> 0]
               /\ term[p] = [scrollY |-> 0, max |-> 0, row |-> 0]
               /\ queue[p] = [buf |-> <<>>, count |-> 0, front |-> 0, back |-> 0]
    BY DEF Init
  <2> QED
    BY <2>1, <2>2 DEF Threads
<1>5. Ranges
  <2>1. Buffer(<<>>, 0)
    <3>1. <<>> \in Seq({}) /\ Len(<<>>) = 0
      OBVIOUS
    <3> QED
      BY <3>1, SeqIsBuffer, Zenon
  <2>2. \A p \in Apps : Room(queue[p])
    BY <2>1 DEF Init, Room
  <2> QED
    BY <2>2, Zenon DEF Init, Ranges
<1>6. Undrawn
  BY <1>3 DEF Undrawn
<1>7. ASSUME NEW p \in Apps PROVE TerminalInv(p)
  BY <1>3, ContextsApart, DesktopConstants DEF Init, TerminalInv, Still
<1>8. /\ contexts[2] = NewContext(GARBAGE) /\ screen = Rows(ScreenRows, GARBAGE)
      /\ currentContext = 2 /\ scrollY = 0
  BY DEF Init, Contexts
<1>9. Buffer(screen, ScreenRows) /\ Shown
  <2>1. Buffer(screen, ScreenRows)
    BY <1>8, RowsAreBuffer, DesktopConstants
  <2>2. \A i \in 1 .. ScreenRows : screen[i] = contexts[currentContext].cur[scrollY + i]
    BY <1>8, DesktopConstants DEF NewContext, Rows
  <2>3. scrollY = contexts[currentContext].scrollY
    BY <1>8 DEF NewContext
  <2> QED
    BY <2>1, <2>2, <2>3, Zenon DEF Shown, PositionCopied, Image
<1> QED
  BY <1>1, <1>4, <1>5, <1>6, <1>7, <1>9 DEF ScreenInv

\* A step of process p leaves the threads and the buffers of the others alone.
Elsewhere(p) ==
  /\ \A q \in Apps \ {p} : main'[q] = main[q] /\ term'[q] = term[q] /\ kbd'[q] = kbd[q]
  /\ \A c \in Contexts \ {vbeContext[p]} :
       contexts'[c].cur = contexts[c].cur /\ contexts'[c].scrollY = contexts[c].scrollY

\* Then what is said of the others is kept.
LEMMA OthersKept ==
  ASSUME ScreenInv, NEW p \in Apps, Elsewhere(p)
  PROVE  Undrawn' /\ \A q \in Apps \ {p} : TerminalInv(q)'
<1>1. Undrawn'
  BY DEF ScreenInv, Undrawn, Elsewhere
<1>2. ASSUME NEW q \in Apps \ {p} PROVE TerminalInv(q)'
  <2>1. /\ main'[q] = main[q] /\ term'[q] = term[q] /\ kbd'[q] = kbd[q]
        /\ contexts'[vbeContext[q]].cur = contexts[vbeContext[q]].cur
        /\ contexts'[vbeContext[q]].scrollY = contexts[vbeContext[q]].scrollY
    BY <1>2, ContextsApart DEF Elsewhere
  <2>2. TerminalInv(q)
    BY DEF ScreenInv
  <2> QED
    BY <2>1, <2>2 DEF TerminalInv, Still, Scrolls, Started
<1> QED
  BY <1>1, <1>2

\* And, if p does not own the screen and leaves it alone, the screen is right.
LEMMA ShownElsewhere ==
  ASSUME ScreenInv, NEW p \in Apps, Elsewhere(p), ~Owns(p),
         UNCHANGED <<currentContext, screen, scrollY>>
  PROVE  Shown'
<1>1. currentContext \in Contexts
  BY DEF ScreenInv, IInv, Shapes
<1>2. /\ contexts'[currentContext].cur = contexts[currentContext].cur
      /\ contexts'[currentContext].scrollY = contexts[currentContext].scrollY
  BY <1>1 DEF Elsewhere, Owns
<1>3. \A q \in Apps : Owns(q)' <=> Owns(q)
  BY DEF Owns
<1>4. \A q \in Apps : Owns(q) => main'[q] = main[q] /\ term'[q] = term[q] /\ kbd'[q] = kbd[q]
  BY DEF Elsewhere
<1>5. PositionCopied'
  BY <1>2, <1>3, <1>4 DEF ScreenInv, Shown, PositionCopied
<1>6. ASSUME \A q \in Apps : Owns(q)' => ~Busy(q)' PROVE Image'
  <2>1. Image
    BY <1>3, <1>4, <1>6 DEF ScreenInv, Shown, Busy
  <2> QED
    BY <1>2, <1>3, <1>4, <2>1 DEF Image
<1> QED
  BY <1>5, <1>6 DEF Shown

\* The parts of the invariant after a step of process p.
LEMMA StepScreen ==
  ASSUME ScreenInv, NEW p \in Apps, Elsewhere(p), IInv', Threads', Ranges',
         Buffer(screen, ScreenRows)', TerminalInv(p)', Shown'
  PROVE  ScreenInv'
BY OthersKept DEF ScreenInv

\* A blit changes no buffer but the copy of the screen, and the screen only for
\* the current context and when the first of the rows is visible.
LEMMA BlitFrame ==
  ASSUME ScreenInv, NEW c \in Contexts, NEW posY, NEW height,
         _vbe_blit_to_video_memory(contexts, c, posY, height)
  PROVE  /\ \A d \in Contexts : contexts'[d].cur = contexts[d].cur
                                  /\ contexts'[d].scrollY = contexts[d].scrollY
         /\ Buffer(screen', ScreenRows)
         /\ c # currentContext \/ ~(scrollY <= posY /\ posY < scrollY + ScreenRows)
              => screen' = screen
<1>1. CASE contexts' = contexts /\ screen' = screen
  BY <1>1 DEF ScreenInv
<1>2. CASE c = currentContext /\ scrollY <= posY /\ posY < scrollY + ScreenRows
  <2>1. PICK prev, rows :
          /\ contexts' = [contexts EXCEPT ![c].prev = prev]
          /\ screen' = [i \in 1 .. ScreenRows |-> rows[i]]
    BY <1>2, ZenonT(40) DEF _vbe_blit_to_video_memory
  <2>2. Buffer(screen', ScreenRows)
    BY <2>1 DEF Buffer
  <2>3. \A d \in Contexts : contexts'[d].cur = contexts[d].cur
                              /\ contexts'[d].scrollY = contexts[d].scrollY
    BY <2>1 DEF ScreenInv, IInv, Shapes, ContextRecord
  <2> QED
    BY <1>2, <2>2, <2>3
<1> QED
  BY <1>1, <1>2 DEF _vbe_blit_to_video_memory

\* A visible blit of the current context brings its rows to the screen, although
\* it writes only those that differ from the copy.
LEMMA BlitRows ==
  ASSUME ScreenInv, NEW posY \in Int, NEW height \in Nat, scrollY \in Int,
         scrollY <= posY, posY < scrollY + ScreenRows,
         _vbe_blit_to_video_memory(contexts, currentContext, posY, height)
  PROVE  \A i \in 1 .. ScreenRows :
           screen'[i] = IF scrollY + i - 1 \in posY .. posY + height - 1
                        THEN contexts[currentContext].cur[scrollY + i] ELSE screen[i]
<1> DEFINE c == currentContext
           rows == {r \in posY .. posY + height - 1 : r < scrollY + ScreenRows}
           differs == {r - scrollY + 1 : r \in
                    {r \in rows : contexts[c].prev[r - scrollY + 1] # contexts[c].cur[r + 1]}}
<1>1. contexts[c].prev = screen
  BY DEF ScreenInv, IInv, PreviousIsScreen
<1>2. ASSUME NEW i \in 1 .. ScreenRows
      PROVE  screen'[i] = IF i \in differs THEN contexts[c].cur[i + scrollY] ELSE screen[i]
  <2> HIDE DEF differs
  <2>1. screen' = [j \in 1 .. ScreenRows |->
                     IF j \in differs
                     THEN [k \in 1 .. ScreenRows |-> contexts[c].cur[k + scrollY]][j]
                     ELSE screen[j]]
    BY Zenon DEF _vbe_blit_to_video_memory, differs
  <2> QED
    BY <2>1
<1>3. ASSUME NEW i \in 1 .. ScreenRows
      PROVE  i \in differs <=> /\ scrollY + i - 1 \in posY .. posY + height - 1
                               /\ screen[i] # contexts[c].cur[scrollY + i]
  <2> DEFINE r == scrollY + i - 1
  <2>1. r - scrollY + 1 = i /\ r + 1 = scrollY + i /\ r < scrollY + ScreenRows /\ r \in Int
    BY DesktopConstants
  <2>2. i \in differs <=> \E q \in posY .. posY + height - 1 :
                            /\ q < scrollY + ScreenRows /\ i = q - scrollY + 1
                            /\ screen[q - scrollY + 1] # contexts[c].cur[q + 1]
    BY <1>1
  <2>3. \A q \in posY .. posY + height - 1 : i = q - scrollY + 1 <=> q = r
    BY DesktopConstants
  <2> HIDE DEF r, differs
  <2> QED
    BY <2>1, <2>2, <2>3 DEF r
<1> HIDE DEF differs
<1>4. \A i \in 1 .. ScreenRows : i + scrollY = scrollY + i
  BY DesktopConstants
<1> QED
  BY <1>2, <1>3, <1>4

\* A step that leaves the buffers alone and passes none of the points that count
\* for the screen keeps it right.
LEMMA QuietShown ==
  ASSUME ScreenInv, UNCHANGED vvars,
         \A q \in Apps : /\ term'[q].row = term[q].row
                         /\ main'[q].pc = "blit" <=> main[q].pc = "blit"
                         /\ main'[q].pc \in {"clear", "clearblit"}
                              <=> main[q].pc \in {"clear", "clearblit"}
                         /\ kbd'[q].pc = "locked" <=> kbd[q].pc = "locked"
                         /\ kbd'[q].pc = "blit" <=> kbd[q].pc = "blit"
  PROVE  Shown' /\ Buffer(screen, ScreenRows)'
<1>1. /\ contexts' = contexts /\ scrollY' = scrollY /\ screen' = screen
      /\ currentContext' = currentContext
  BY DEF vvars
<1>2. \A q \in Apps : (Owns(q)' <=> Owns(q)) /\ (Busy(q)' <=> Busy(q))
  BY <1>1 DEF Owns, Busy
<1>3. PositionCopied'
  BY <1>1, <1>2 DEF ScreenInv, Shown, PositionCopied
<1>4. Image => Image'
  BY <1>1, <1>2 DEF Image
<1> QED
  BY <1>1, <1>2, <1>3, <1>4 DEF ScreenInv, Shown

\* A step that leaves the threads, the terminals and the buffers alone.
LEMMA IdleScreen ==
  ASSUME ScreenInv, IInv', Ranges', UNCHANGED <<vvars, kbd, queue, term, main>>
  PROVE  ScreenInv'
<1>1. Shown' /\ Buffer(screen, ScreenRows)'
  BY QuietShown
<1>2. contexts' = contexts
  BY DEF vvars
<1>3. Undrawn' /\ Threads'
  BY <1>2 DEF ScreenInv, Undrawn, Threads
<1>4. \A p \in Apps : TerminalInv(p)'
  BY <1>2 DEF ScreenInv, TerminalInv, Still, Scrolls, Started
<1> QED
  BY <1>1, <1>3, <1>4 DEF ScreenInv

\* The keyboard interrupt and the start of a process.
LEMMA KeyboardScreen ==
  ASSUME ScreenInv, IInv', Keyboard \/ sys_start_process
  PROVE  ScreenInv'
<1>1. UNCHANGED <<vvars, kbd, queue, term, main>>
  BY DEF Keyboard, ScanE0, _handle_key_press, KeyRelease, sys_start_process
<1>2. pressedKeys' \subseteq DOMAIN FKeys /\ receivedE0' \in BOOLEAN
  BY Zenon DEF Keyboard, ScanE0, _handle_key_press, KeyRelease, sys_start_process, kvars,
         ScreenInv, Ranges
<1>3. processDisplayed' \in started'
  BY DEF Keyboard, ScanE0, _handle_key_press, KeyRelease, sys_start_process,
         ScreenInv, Ranges
<1>4. Ranges'
  BY <1>1, <1>2, <1>3 DEF ScreenInv, Ranges, Room
<1> QED
  BY <1>1, <1>4, IdleScreen

\* A message is taken, and a navigation key is looked at.
LEMMA MessageScreen ==
  ASSUME ScreenInv, IInv', NEW p \in Apps,
         sys_next_message(p) \/ terminal_handle_navigation_key(p)
  PROVE  ScreenInv'
<1>1. UNCHANGED <<kvars, processDisplayed, started, vvars, queue, term, main>>
  BY DEF sys_next_message, terminal_handle_navigation_key
<1>2. /\ kbd' = [q \in Apps |-> kbd'[q]] /\ \A q \in Apps \ {p} : kbd'[q] = kbd[q]
      /\ kbd'[p] = [pc |-> kbd'[p].pc, msg |-> kbd'[p].msg, y |-> kbd'[p].y]
  BY DEF sys_next_message, terminal_handle_navigation_key, Poll, ScreenInv, Threads
<1>3. /\ kbd[p].pc \in {"poll", "handle"}
      /\ \/ kbd'[p].pc \in {"poll", "handle"}
         \/ /\ kbd'[p].pc = "scroll" /\ kbd'[p].y # term[p].scrollY
            /\ kbd'[p].y \in {0, term[p].max}
  <2>1. DOMAIN kbd = Apps /\ kbd[p] = [pc |-> kbd[p].pc, msg |-> kbd[p].msg, y |-> kbd[p].y]
    BY DEF ScreenInv, Threads
  <2>2. CASE sys_next_message(p)
    BY <2>1, <2>2 DEF sys_next_message
  <2>3. CASE terminal_handle_navigation_key(p)
    BY <2>1, <2>3 DEF terminal_handle_navigation_key, Poll
  <2> QED
    BY <2>2, <2>3
<1>4. Elsewhere(p) /\ Threads' /\ Ranges'
  BY <1>1, <1>2, Zenon DEF Elsewhere, kvars, vvars, ScreenInv, Threads, Ranges
<1>5. TerminalInv(p)'
  <2>1. TerminalInv(p) /\ contexts' = contexts /\ main' = main /\ term' = term
    BY <1>1 DEF ScreenInv, vvars
  <2> QED
    BY <1>3, <2>1, DesktopConstants DEF TerminalInv, Still, Scrolls, Started
<1>6. Shown' /\ Buffer(screen, ScreenRows)'
  BY <1>1, <1>2, <1>3, QuietShown
<1> QED
  BY <1>4, <1>5, <1>6, StepScreen

\* A scroll: the position of the context is written ...
LEMMA ScrollScreen ==
  ASSUME ScreenInv, IInv', NEW p \in Apps, vbe_set_scroll_position(p)
  PROVE  ScreenInv'
<1> DEFINE c == vbeContext[p]
<1>1. /\ contexts' = [contexts EXCEPT ![c].scrollY = Target(p)]
      /\ kbd' = [kbd EXCEPT ![p].pc = "locked"] /\ kbd[p].pc = "scroll"
      /\ UNCHANGED <<kvars, processDisplayed, started, scrollY, screen, currentContext,
                     queue, term, main>>
  BY DEF vbe_set_scroll_position
<1>2. c \in Contexts /\ TerminalInv(p)
  BY ContextsApart DEF ScreenInv
<1>3. /\ contexts'[c].cur = contexts[c].cur /\ contexts'[c].scrollY = Target(p)
      /\ \A d \in Contexts \ {c} : contexts'[d] = contexts[d]
  BY <1>1, <1>2, SMTT(30) DEF ScreenInv, IInv, Shapes, ContextRecord
<1>4. /\ kbd' = [q \in Apps |-> kbd'[q]] /\ \A q \in Apps \ {p} : kbd'[q] = kbd[q]
      /\ kbd'[p] = [pc |-> "locked", msg |-> kbd[p].msg, y |-> kbd[p].y]
  <2>1. DOMAIN kbd = Apps /\ kbd[p] = [pc |-> kbd[p].pc, msg |-> kbd[p].msg, y |-> kbd[p].y]
    BY DEF ScreenInv, Threads
  <2>2. kbd'[p] = [kbd[p] EXCEPT !.pc = "locked"]
    BY <1>1, <2>1
  <2> QED
    BY <1>1, <2>1, <2>2, Zenon
<1>5. Elsewhere(p) /\ Threads' /\ Ranges'
  BY <1>1, <1>3, <1>4 DEF Elsewhere, kvars, ScreenInv, Threads, Ranges
<1>6. /\ Started(p) /\ Buffer(contexts[c].cur, TerminalRows) /\ Scrolls(p)
      /\ Target(p) = Clamped(kbd[p].y, TerminalRows)
  <2>1. Started(p) /\ Buffer(contexts[c].cur, TerminalRows) /\ Scrolls(p)
    BY <1>1, <1>2 DEF TerminalInv, Still
  <2> QED
    BY <2>1, BufferIsSeq, DesktopConstants, Zenon DEF Target
<1>7. TerminalInv(p)'
  <2>1. Clamped(kbd[p].y, TerminalRows) \in 0 .. TerminalRows - ScreenRows - 1
    BY <1>1, <1>6, DesktopConstants DEF Scrolls, Clamped
  <2>2. Scrolls(p)'
    BY <1>1, <1>3, <1>4, <1>6, <2>1 DEF Scrolls, Clamped
  <2> QED
    BY <1>1, <1>2, <1>3, <1>6, <2>2 DEF TerminalInv, Started
<1>8. Shown' /\ Buffer(screen, ScreenRows)'
  <2>1. CASE Owns(p)
    <3>1. Owns(p)' /\ Busy(p)' /\ kbd'[p].pc = "locked"
      BY <1>1, <1>4, <2>1 DEF Owns, Busy
    <3> QED
      BY <1>1, <3>1 DEF Shown, PositionCopied, ScreenInv
  <2>2. CASE ~Owns(p)
    BY <1>1, <1>5, <2>2, ShownElsewhere DEF ScreenInv
  <2> QED
    BY <2>1, <2>2
<1> QED
  BY <1>5, <1>7, <1>8, StepScreen

\* ... then the copy ...
LEMMA ScrollLockedScreen ==
  ASSUME ScreenInv, IInv', NEW p \in Apps, scroll_locked(p)
  PROVE  ScreenInv'
<1> DEFINE c == vbeContext[p]
<1>1. /\ kbd[p].pc = "locked" /\ kbd' = [kbd EXCEPT ![p].pc = "blit"]
      /\ scrollY' = IF c = currentContext THEN Target(p) ELSE scrollY
      /\ UNCHANGED <<kvars, processDisplayed, started, contexts, screen, currentContext,
                     queue, term, main>>
  BY DEF scroll_locked
<1>2. /\ kbd' = [q \in Apps |-> kbd'[q]] /\ \A q \in Apps \ {p} : kbd'[q] = kbd[q]
      /\ kbd'[p] = [pc |-> "blit", msg |-> kbd[p].msg, y |-> kbd[p].y]
  <2>1. DOMAIN kbd = Apps /\ kbd[p] = [pc |-> kbd[p].pc, msg |-> kbd[p].msg, y |-> kbd[p].y]
    BY DEF ScreenInv, Threads
  <2>2. kbd'[p] = [kbd[p] EXCEPT !.pc = "blit"]
    BY <1>1, <2>1
  <2> QED
    BY <1>1, <2>1, <2>2, Zenon
<1>3. Elsewhere(p) /\ Threads' /\ Ranges'
  BY <1>1, <1>2 DEF Elsewhere, kvars, ScreenInv, Threads, Ranges
<1>4. TerminalInv(p) /\ Started(p) /\ Buffer(contexts[c].cur, TerminalRows) /\ Scrolls(p)
  BY <1>1 DEF ScreenInv, TerminalInv, Still
<1>5. TerminalInv(p)'
  BY <1>1, <1>2, <1>4 DEF TerminalInv, Scrolls, Started
<1>6. Target(p) = contexts[c].scrollY
  <2>1. Len(contexts[c].cur) = TerminalRows
    BY <1>4, BufferIsSeq, DesktopConstants, Zenon
  <2> QED
    BY <1>1, <1>4, <2>1 DEF Target, Scrolls
<1>7. Shown' /\ Buffer(screen, ScreenRows)'
  <2>1. CASE Owns(p)
    <3>1. Owns(p)' /\ Busy(p)' /\ scrollY' = contexts'[currentContext'].scrollY
      BY <1>1, <1>2, <1>6, <2>1 DEF Owns, Busy
    <3> QED
      BY <1>1, <3>1 DEF Shown, PositionCopied, ScreenInv
  <2>2. CASE ~Owns(p)
    BY <1>1, <1>3, <2>2, ShownElsewhere DEF ScreenInv, Owns
  <2> QED
    BY <2>1, <2>2
<1> QED
  BY <1>3, <1>5, <1>7, StepScreen

\* The whole visible part is drawn again.
LEMMA RedrawShown ==
  ASSUME ScreenInv, NEW p \in Apps, Owns(p), scrollY = contexts[currentContext].scrollY,
         _vbe_blit_to_video_memory(contexts, vbeContext[p], scrollY, ScreenRows),
         UNCHANGED <<scrollY, currentContext>>
  PROVE  Shown'
<1>1. currentContext \in Contexts /\ vbeContext[p] = currentContext
  BY DEF ScreenInv, IInv, Shapes, Owns
<1>2. /\ contexts'[currentContext].cur = contexts[currentContext].cur
      /\ contexts'[currentContext].scrollY = contexts[currentContext].scrollY
  BY <1>1, BlitFrame
<1>3. scrollY \in Nat
  BY <1>1, Heights, DesktopConstants, SMTT(30)
<1>4. \A i \in 1 .. ScreenRows :
        screen'[i] = IF scrollY + i - 1 \in scrollY .. scrollY + ScreenRows - 1
                     THEN contexts[currentContext].cur[scrollY + i] ELSE screen[i]
  BY <1>1, <1>3, BlitRows, DesktopConstants
<1>5. \A i \in 1 .. ScreenRows : scrollY + i - 1 \in scrollY .. scrollY + ScreenRows - 1
  BY <1>3, DesktopConstants
<1>6. Image'
  BY <1>2, <1>4, <1>5, Zenon DEF Image
<1> QED
  BY <1>2, <1>6 DEF Shown, PositionCopied

\* ... and the screen.
LEMMA ScrollBlitScreen ==
  ASSUME ScreenInv, IInv', NEW p \in Apps, scroll_blit(p)
  PROVE  ScreenInv'
<1> DEFINE c == vbeContext[p]
<1>1. /\ kbd[p].pc = "blit" /\ Poll(p)
      /\ _vbe_blit_to_video_memory(contexts, c, Target(p), ScreenRows)
      /\ term' = [term EXCEPT ![p].scrollY = kbd[p].y]
      /\ UNCHANGED <<kvars, processDisplayed, started, scrollY, currentContext, queue, main>>
  BY DEF scroll_blit
<1>2. /\ kbd' = [q \in Apps |-> kbd'[q]] /\ \A q \in Apps \ {p} : kbd'[q] = kbd[q]
      /\ kbd'[p] = [pc |-> "poll", msg |-> NoMessage, y |-> 0]
  BY <1>1, Zenon DEF Poll, ScreenInv, Threads
<1>3. /\ term' = [q \in Apps |-> term'[q]] /\ \A q \in Apps \ {p} : term'[q] = term[q]
      /\ term'[p] = [scrollY |-> kbd[p].y, max |-> term[p].max, row |-> term[p].row]
  <2>1. /\ DOMAIN term = Apps
        /\ term[p] = [scrollY |-> term[p].scrollY, max |-> term[p].max, row |-> term[p].row]
    BY DEF ScreenInv, Threads
  <2>2. term'[p] = [term[p] EXCEPT !.scrollY = kbd[p].y]
    BY <1>1, <2>1
  <2> QED
    BY <1>1, <2>1, <2>2, Zenon
<1>4. /\ c \in Contexts /\ Buffer(screen', ScreenRows)
      /\ \A d \in Contexts : contexts'[d].cur = contexts[d].cur
                               /\ contexts'[d].scrollY = contexts[d].scrollY
      /\ c # currentContext => screen' = screen
  BY <1>1, ContextsApart, BlitFrame
<1>5. Elsewhere(p) /\ Threads' /\ Ranges'
  BY <1>1, <1>2, <1>3, <1>4 DEF Elsewhere, kvars, ScreenInv, Threads, Ranges
<1>6. TerminalInv(p) /\ Started(p) /\ Buffer(contexts[c].cur, TerminalRows) /\ Scrolls(p)
  BY <1>1, SMTT(30) DEF ScreenInv, TerminalInv, Still
<1>7. TerminalInv(p)'
  BY <1>1, <1>2, <1>3, <1>4, <1>6 DEF TerminalInv, Scrolls, Started
<1>8. Target(p) = contexts[c].scrollY
  <2>1. Len(contexts[c].cur) = TerminalRows
    BY <1>6, BufferIsSeq, DesktopConstants, Zenon
  <2> QED
    BY <1>1, <1>6, <2>1 DEF Target, Scrolls
<1>9. Shown'
  <2>1. CASE Owns(p)
    <3>1. \A q \in Apps : Owns(q) => q = p
      BY <2>1, ContextsApart DEF Owns
    <3>2. scrollY = contexts[currentContext].scrollY
      BY <1>1, <3>1 DEF ScreenInv, Shown, PositionCopied
    <3> QED
      BY <1>1, <1>8, <2>1, <3>2, RedrawShown DEF Owns
  <2>2. CASE ~Owns(p)
    BY <1>1, <1>4, <1>5, <2>2, ShownElsewhere DEF Owns
  <2> QED
    BY <2>1, <2>2
<1> QED
  BY <1>4, <1>5, <1>7, <1>9, StepScreen

\* Buffers one behind the other.
LEMMA BuffersJoined ==
  ASSUME NEW a \in Nat, NEW b \in Nat, NEW s, NEW t, Buffer(s, a), Buffer(t, b)
  PROVE  Buffer(s \o t, a + b)
<1> DEFINE S == {s[i] : i \in 1 .. a} \cup {t[i] : i \in 1 .. b}
<1>1. s \in Seq({s[i] : i \in 1 .. a}) /\ Len(s) = a
  BY BufferIsSeq
<1>2. t \in Seq({t[i] : i \in 1 .. b}) /\ Len(t) = b
  BY BufferIsSeq
<1>3. s \in Seq(S) /\ t \in Seq(S)
  BY <1>1, <1>2
<1> HIDE DEF S
<1>4. s \o t \in Seq(S) /\ Len(s \o t) = a + b
  BY <1>1, <1>2, <1>3
<1> QED
  BY <1>4, SeqIsBuffer, Zenon

\* A ring buffer that has grown has room for one element more.
LEMMA GrownHasRoom ==
  ASSUME NEW q, Room(q),
         q = [buf |-> q.buf, count |-> q.count, front |-> q.front, back |-> q.back]
  PROVE  LET g == Grown(q) IN
         /\ g = [buf |-> g.buf, count |-> q.count, front |-> g.front, back |-> g.back]
         /\ \E h \in Nat : Buffer(g.buf, h) /\ q.count \in 0 .. h - 1
<1>1. PICK h \in Nat : Buffer(q.buf, h) /\ q.count \in 0 .. h
  BY DEF Room
<1>2. Len(q.buf) = h
  BY <1>1, BufferIsSeq, Zenon
<1>3. CASE q.count < Len(q.buf)
  <2>1. Grown(q) = q
    BY <1>3 DEF Grown
  <2> QED
    BY <1>1, <1>2, <1>3, <2>1
<1>4. CASE ~(q.count < Len(q.buf))
  <2> DEFINE cap == IF q.buf = <<>> THEN FirstCapacity ELSE 2 * Len(q.buf)
             buf == Elements(q) \o [i \in 1 .. cap - q.count |-> NoMessage]
  <2>1. Grown(q) = [q EXCEPT !.buf = buf, !.front = 0, !.back = q.count]
    BY <1>4 DEF Grown
  <2>2. h = q.count /\ h \in Nat /\ cap \in Nat /\ q.count < cap
    <3>1. h = q.count
      BY <1>1, <1>2, <1>4
    <3>2. q.buf # <<>> => h > 0
      BY <1>1 DEF Buffer
    <3> QED
      BY <1>2, <3>1, <3>2, DesktopConstants
  <2> HIDE DEF cap
  <2>3. Buffer(Elements(q), h)
    BY <2>2 DEF Buffer, Elements
  <2>4. cap - q.count \in Nat /\ h + (cap - q.count) = cap
    BY <2>2
  <2>5. Buffer([i \in 1 .. cap - q.count |-> NoMessage], cap - q.count)
    BY <2>4 DEF Buffer
  <2>6. Buffer(buf, cap)
    BY <2>2, <2>3, <2>4, <2>5, BuffersJoined
  <2> HIDE DEF buf
  <2>7. Grown(q) = [buf |-> buf, count |-> q.count, front |-> 0, back |-> q.count]
    BY <2>1, Zenon
  <2> QED
    BY <2>2, <2>6, <2>7
<1> QED
  BY <1>3, <1>4

\* A key goes into the ring buffer.
LEMMA AddScreen ==
  ASSUME ScreenInv, IInv', NEW p \in Apps, queue_add_element(p)
  PROVE  ScreenInv'
<1> DEFINE g == Grown(queue[p])
<1>1. /\ kbd[p].pc = "handle" /\ Poll(p)
      /\ queue' = [queue EXCEPT ![p] =
                     [g EXCEPT !.buf[g.back + 1] = kbd[p].msg, !.count = @ + 1,
                               !.back = (@ + 1) % Len(g.buf)]]
      /\ UNCHANGED <<kvars, processDisplayed, started, vvars, term, main>>
  BY DEF queue_add_element
<1>2. /\ kbd' = [q \in Apps |-> kbd'[q]] /\ \A q \in Apps \ {p} : kbd'[q] = kbd[q]
      /\ kbd'[p] = [pc |-> "poll", msg |-> NoMessage, y |-> 0]
  BY <1>1, Zenon DEF Poll, ScreenInv, Threads
<1>3. /\ g = [buf |-> g.buf, count |-> queue[p].count, front |-> g.front, back |-> g.back]
      /\ \E h \in Nat : Buffer(g.buf, h) /\ queue[p].count \in 0 .. h - 1
  BY GrownHasRoom DEF ScreenInv, Ranges, Threads
<1> HIDE DEF g
<1>4. PICK h \in Nat : Buffer(g.buf, h) /\ queue[p].count \in 0 .. h - 1
  BY <1>3
<1>5. PICK back : queue'[p] = [buf |-> [g.buf EXCEPT ![g.back + 1] = kbd[p].msg],
                               count |-> queue[p].count + 1, front |-> g.front, back |-> back]
  <2>1. DOMAIN queue = Apps
    BY DEF ScreenInv, Threads
  <2> DEFINE x == [g.buf EXCEPT ![g.back + 1] = kbd[p].msg]
             z == (g.back + 1) % Len(g.buf)
  <2>2. queue'[p] = [g EXCEPT !.buf = x, !.count = g.count + 1, !.back = z]
    BY <1>1, <2>1
  <2> HIDE DEF x, z
  <2>3. PICK n, front, back, buf : /\ g = [buf |-> buf, count |-> n, front |-> front, back |-> back]
                                  /\ n = queue[p].count
    BY <1>3
  <2>4. g.count = n /\ g.front = front
    BY <2>3
  <2>5. [g EXCEPT !.buf = x, !.count = n + 1, !.back = z]
          = [buf |-> x, count |-> n + 1, front |-> front, back |-> z]
    <3> DEFINE g1 == [g EXCEPT !.buf = x]
               g2 == [g1 EXCEPT !.count = n + 1]
    <3>1. g1 = [buf |-> x, count |-> n, front |-> front, back |-> back]
      BY <2>3
    <3> HIDE DEF g1
    <3>2. g2 = [buf |-> x, count |-> n + 1, front |-> front, back |-> back]
      BY <3>1
    <3> HIDE DEF g2
    <3>3. [g2 EXCEPT !.back = z] = [buf |-> x, count |-> n + 1, front |-> front, back |-> z]
      BY <3>2
    <3> QED
      BY <3>3, Zenon DEF g1, g2
  <2>6. queue'[p] = [buf |-> x, count |-> queue[p].count + 1, front |-> g.front, back |-> z]
    BY <2>2, <2>3, <2>4, <2>5
  <2> QED
    BY <2>6, Zenon DEF x
<1>6. Room(queue'[p])
  <2>1. Buffer([g.buf EXCEPT ![g.back + 1] = kbd[p].msg], h)
    BY <1>4, SMTT(30) DEF Buffer
  <2>2. queue[p].count + 1 \in 0 .. h
    BY <1>4
  <2> QED
    BY <1>5, <2>1, <2>2 DEF Room
<1>7. /\ queue' = [q \in Apps |-> queue'[q]] /\ \A q \in Apps \ {p} : queue'[q] = queue[q]
      /\ queue'[p] = [buf |-> queue'[p].buf, count |-> queue'[p].count,
                      front |-> queue'[p].front, back |-> queue'[p].back]
  BY <1>1, <1>5, Zenon DEF ScreenInv, Threads
<1>8. Elsewhere(p) /\ Threads'
  BY <1>1, <1>2, <1>7, Zenon DEF Elsewhere, vvars, ScreenInv, Threads
<1>9. Ranges'
  BY <1>1, <1>6, <1>7 DEF kvars, ScreenInv, Ranges, Room
<1>10. TerminalInv(p)'
  <2>1. TerminalInv(p) /\ contexts' = contexts /\ main' = main /\ term' = term
    BY <1>1 DEF ScreenInv, vvars
  <2> QED
    BY <1>1, <1>2, <2>1 DEF TerminalInv, Still, Scrolls, Started
<1>11. Shown' /\ Buffer(screen, ScreenRows)'
  BY <1>1, <1>2, QuietShown
<1> QED
  BY <1>8, <1>9, <1>10, <1>11, StepScreen

\* The main thread takes a key out of the ring buffer.
LEMMA RetrieveScreen ==
  ASSUME ScreenInv, IInv', NEW p \in Apps, queue_retrieve(p)
  PROVE  ScreenInv'
<1>1. /\ main[p].pc = "idle" /\ queue[p].count > 0
      /\ queue' = [queue EXCEPT ![p].count = @ - 1,
                                ![p].front = (@ + 1) % Len(queue[p].buf)]
      /\ main' = main \/ \E n : main' = [main EXCEPT ![p] = [pc |-> "print", n |-> n]]
      /\ UNCHANGED <<kvars, processDisplayed, started, vvars, kbd, term>>
  BY DEF queue_retrieve
<1>2. /\ main' = [q \in Apps |-> main'[q]] /\ \A q \in Apps \ {p} : main'[q] = main[q]
      /\ main'[p] = [pc |-> main'[p].pc, n |-> main'[p].n] /\ main'[p].pc \in {"idle", "print"}
  BY <1>1 DEF ScreenInv, Threads
<1>3. /\ queue' = [q \in Apps |-> queue'[q]] /\ \A q \in Apps \ {p} : queue'[q] = queue[q]
      /\ \E front : queue'[p] = [buf |-> queue[p].buf, count |-> queue[p].count - 1,
                                 front |-> front, back |-> queue[p].back]
  <2>1. /\ DOMAIN queue = Apps
        /\ queue[p] = [buf |-> queue[p].buf, count |-> queue[p].count,
                       front |-> queue[p].front, back |-> queue[p].back]
    BY DEF ScreenInv, Threads
  <2>2. queue'[p] = [queue[p] EXCEPT !.count = @ - 1, !.front = (@ + 1) % Len(queue[p].buf)]
    BY <1>1, <2>1
  <2>3. queue'[p] = [buf |-> queue[p].buf, count |-> queue[p].count - 1,
                     front |-> (queue[p].front + 1) % Len(queue[p].buf), back |-> queue[p].back]
    BY <2>1, <2>2, Zenon
  <2> QED
    BY <1>1, <2>1, <2>3, Zenon
<1>4. Room(queue'[p])
  <2>1. PICK h \in Nat : Buffer(queue[p].buf, h) /\ queue[p].count \in 0 .. h
    BY DEF ScreenInv, Ranges, Room
  <2>2. queue[p].count - 1 \in 0 .. h
    BY <1>1, <2>1
  <2> QED
    BY <1>3, <2>1, <2>2 DEF Room
<1>5. Elsewhere(p) /\ Threads'
  <2>1. queue'[p] = [buf |-> queue'[p].buf, count |-> queue'[p].count,
                     front |-> queue'[p].front, back |-> queue'[p].back]
    BY <1>3
  <2>2. Elsewhere(p)
    BY <1>1, <1>2 DEF Elsewhere, vvars
  <2>3. Threads
    BY DEF ScreenInv
  <2>4. kbd' = kbd /\ term' = term
    BY <1>1
  <2>5. \A q \in Apps : /\ main'[q] = [pc |-> main'[q].pc, n |-> main'[q].n]
                        /\ queue'[q] = [buf |-> queue'[q].buf, count |-> queue'[q].count,
                                       front |-> queue'[q].front, back |-> queue'[q].back]
    BY <1>2, <1>3, <2>1, <2>3, Zenon DEF Threads
  <2> QED
    BY <1>2, <1>3, <2>2, <2>3, <2>4, <2>5, Zenon DEF Threads
<1>6. Ranges'
  BY <1>1, <1>3, <1>4, Zenon DEF kvars, ScreenInv, Ranges, Room
<1>7. TerminalInv(p)'
  <2>1. TerminalInv(p) /\ contexts' = contexts /\ kbd' = kbd /\ term' = term
    BY <1>1 DEF ScreenInv, vvars
  <2> QED
    BY <1>1, <1>2, <2>1 DEF TerminalInv, Still, Scrolls, Started
<1>8. Shown' /\ Buffer(screen, ScreenRows)'
  BY <1>1, <1>2, QuietShown
<1> QED
  BY <1>5, <1>6, <1>7, <1>8, StepScreen

\* A window switch draws the context that it shows.
LEMMA SwitchScreen ==
  ASSUME ScreenInv, IInv', handle_window_switch
  PROVE  ScreenInv'
<1> DEFINE p == "ui"
<1>1. /\ p \in Apps /\ kbd[p].pc = "handle" /\ Poll(p)
      /\ UNCHANGED <<kvars, started, queue, term, main>>
  BY DEF handle_window_switch, Apps
<1>2. PICK c \in Contexts : proc_display(c)
  <2>1. \A k \in DOMAIN FKeys : FKeys[k] \in Contexts
    BY DEF FKeys, Contexts
  <2> QED
    BY <2>1 DEF handle_window_switch
<1> HIDE DEF p
<1>3. /\ kbd' = [q \in Apps |-> kbd'[q]] /\ \A q \in Apps \ {p} : kbd'[q] = kbd[q]
      /\ kbd'[p] = [pc |-> "poll", msg |-> NoMessage, y |-> 0]
  BY <1>1, Zenon DEF Poll, ScreenInv, Threads
<1>4. \/ UNCHANGED vvars /\ processDisplayed' = processDisplayed
      \/ vbe_show_context(c) /\ processDisplayed' \in started \cup {processDisplayed}
  BY <1>2 DEF proc_display
<1>5. \A d \in Contexts : contexts'[d].cur = contexts[d].cur
                            /\ contexts'[d].scrollY = contexts[d].scrollY
  <2>1. CASE UNCHANGED vvars
    BY <2>1 DEF vvars
  <2>2. ASSUME NEW v, contexts' = [contexts EXCEPT ![c].prev = v]
        PROVE  \A d \in Contexts : contexts'[d].cur = contexts[d].cur
                                     /\ contexts'[d].scrollY = contexts[d].scrollY
    BY <2>2 DEF ScreenInv, IInv, Shapes, ContextRecord
  <2> QED
    BY <1>4, <2>1, <2>2 DEF vbe_show_context
<1>6. Elsewhere(p) /\ Threads' /\ Ranges'
  BY <1>1, <1>3, <1>4, <1>5, Zenon DEF Elsewhere, kvars, ScreenInv, Threads, Ranges
<1>7. TerminalInv(p)'
  <2>1. TerminalInv(p) /\ main' = main /\ term' = term /\ vbeContext[p] \in Contexts
    BY <1>1, ContextsApart, Zenon DEF ScreenInv
  <2> QED
    BY <1>1, <1>3, <1>5, <2>1 DEF TerminalInv, Still, Scrolls, Started
<1>8. Shown' /\ Buffer(screen, ScreenRows)'
  <2>1. CASE UNCHANGED vvars
    BY <1>1, <1>3, <2>1, QuietShown
  <2>2. CASE vbe_show_context(c)
    <3>1. PICK h \in {ScreenRows, TerminalRows} :
            /\ Buffer(contexts[c].cur, h) /\ h \in Nat
            /\ contexts[c].scrollY \in 0 .. h - ScreenRows
      BY Heights
    <3>2. /\ currentContext' = c /\ scrollY' = contexts[c].scrollY
          /\ screen' = SubSeq(contexts[c].cur, contexts[c].scrollY + 1,
                              contexts[c].scrollY + ScreenRows)
      BY <2>2 DEF vbe_show_context, Visible
    <3>3. /\ Buffer(screen', ScreenRows)
          /\ \A i \in 1 .. ScreenRows : screen'[i] = contexts[c].cur[contexts[c].scrollY + i]
      BY <3>1, <3>2, PartOfBuffer, Zenon
    <3>4. PositionCopied' /\ Image'
      BY <1>5, <3>2, <3>3, Zenon DEF PositionCopied, Image
    <3> QED
      BY <3>3, <3>4 DEF Shown
  <2> QED
    BY <1>4, <2>1, <2>2
<1> QED
  BY <1>1, <1>6, <1>7, <1>8, StepScreen

\* The main thread goes on to another point.
LEMMA MainMoves ==
  ASSUME ScreenInv, NEW p \in Apps, NEW to, main' = [main EXCEPT ![p].pc = to]
  PROVE  /\ main' = [q \in Apps |-> main'[q]] /\ \A q \in Apps \ {p} : main'[q] = main[q]
         /\ main'[p] = [pc |-> to, n |-> main[p].n]
<1>1. DOMAIN main = Apps /\ main[p] = [pc |-> main[p].pc, n |-> main[p].n]
  BY DEF ScreenInv, Threads
<1>2. main'[p] = [main[p] EXCEPT !.pc = to]
  BY <1>1
<1> QED
  BY <1>1, <1>2, Zenon

\* The large buffer takes the place of the small one.
LEMMA AllocateScreen ==
  ASSUME ScreenInv, IInv', NEW p \in Apps, NEW ok \in BOOLEAN, vbe_allocate_scroll_buffer(p, ok)
  PROVE  ScreenInv'
<1> DEFINE c == vbeContext[p]
<1>1. /\ main[p].pc = "start" /\ main' = [main EXCEPT ![p].pc = IF ok THEN "clear" ELSE "idle"]
      /\ UNCHANGED <<kvars, processDisplayed, started, screen, currentContext, kbd, queue, term>>
  BY DEF vbe_allocate_scroll_buffer
<1>2. /\ main' = [q \in Apps |-> main'[q]] /\ \A q \in Apps \ {p} : main'[q] = main[q]
      /\ main'[p] = [pc |-> IF ok THEN "clear" ELSE "idle", n |-> main[p].n]
  BY <1>1, MainMoves, Zenon
<1>3. c \in Contexts /\ TerminalInv(p) /\ Still(p) /\ Buffer(contexts[c].cur, ScreenRows)
  BY <1>1, ContextsApart DEF ScreenInv, TerminalInv, Started
<1>4. Threads' /\ Ranges'
  BY <1>1, <1>2 DEF kvars, ScreenInv, Threads, Ranges
<1>5. CASE ok
  <2>1. /\ contexts' = [contexts EXCEPT ![c].cur = Rows(TerminalRows, GARBAGE), ![c].scrollY = 0]
        /\ scrollY' = IF c = currentContext THEN 0 ELSE scrollY
    BY <1>5 DEF vbe_allocate_scroll_buffer
  <2>2. /\ contexts'[c].cur = Rows(TerminalRows, GARBAGE) /\ contexts'[c].scrollY = 0
        /\ \A d \in Contexts \ {c} : contexts'[d] = contexts[d]
    <3>1. contexts = [e \in Contexts |-> contexts[e]] /\ ContextRecord(contexts[c])
      BY <1>3 DEF ScreenInv, IInv, Shapes
    <3>2. \A e \in Contexts : contexts'[e] =
            IF e = c THEN [contexts[e] EXCEPT !.cur = Rows(TerminalRows, GARBAGE), !.scrollY = 0]
            ELSE contexts[e]
      BY <1>3, <2>1, <3>1, Zenon
    <3> QED
      BY <1>3, <3>1, <3>2, Zenon DEF ContextRecord
  <2>3. Elsewhere(p)
    BY <1>1, <1>2, <2>2 DEF Elsewhere
  <2>4. Buffer(contexts'[c].cur, TerminalRows)
    BY <2>2, RowsAreBuffer, DesktopConstants
  <2>5. TerminalInv(p)'
    BY <1>1, <1>2, <1>3, <1>5, <2>2, <2>4 DEF TerminalInv, Still
  <2>6. Shown' /\ Buffer(screen, ScreenRows)'
    <3>1. CASE Owns(p)
      <4>1. Owns(p)' /\ Busy(p)' /\ scrollY' = contexts'[currentContext'].scrollY
        BY <1>1, <1>2, <1>5, <2>1, <2>2, <3>1 DEF Owns, Busy
      <4> QED
        BY <1>1, <4>1 DEF Shown, PositionCopied, ScreenInv
    <3>2. CASE ~Owns(p)
      BY <1>1, <2>1, <2>3, <3>2, ShownElsewhere DEF ScreenInv, Owns
    <3> QED
      BY <3>1, <3>2
  <2> QED
    BY <1>4, <2>3, <2>5, <2>6, StepScreen
<1>6. CASE ~ok
  <2>1. contexts' = contexts /\ UNCHANGED vvars
    BY <1>1, <1>6 DEF vbe_allocate_scroll_buffer, vvars
  <2>2. Elsewhere(p)
    BY <1>1, <1>2, <2>1 DEF Elsewhere
  <2>3. TerminalInv(p)'
    BY <1>1, <1>2, <1>3, <1>6, <2>1 DEF TerminalInv, Still, Started
  <2>4. Shown' /\ Buffer(screen, ScreenRows)'
    BY <1>1, <1>2, <1>6, <2>1, QuietShown
  <2> QED
    BY <1>4, <2>2, <2>3, <2>4, StepScreen
<1> QED
  BY <1>5, <1>6

\* The buffer of a context is drawn in.
LEMMA Drawn ==
  ASSUME ScreenInv, NEW c \in Contexts, NEW rows, contexts' = [contexts EXCEPT ![c].cur = rows]
  PROVE  /\ contexts'[c].cur = rows /\ contexts'[c].scrollY = contexts[c].scrollY
         /\ \A d \in Contexts \ {c} : contexts'[d] = contexts[d]
BY DEF ScreenInv, IInv, Shapes, ContextRecord

\* vbe_clear: the buffer is cleared ...
LEMMA ClearScreen ==
  ASSUME ScreenInv, IInv', NEW p \in Apps, vbe_clear(p)
  PROVE  ScreenInv'
<1> DEFINE c == vbeContext[p]
           rows == Rows(Len(contexts[c].cur), BLANK)
<1>1. /\ main[p].pc = "clear" /\ main' = [main EXCEPT ![p].pc = "clearblit"]
      /\ contexts' = [contexts EXCEPT ![c].cur = rows]
      /\ UNCHANGED <<kvars, processDisplayed, started, scrollY, screen, currentContext, kbd,
                     queue, term>>
  BY DEF vbe_clear
<1>2. /\ main' = [q \in Apps |-> main'[q]] /\ \A q \in Apps \ {p} : main'[q] = main[q]
      /\ main'[p] = [pc |-> "clearblit", n |-> main[p].n]
  BY <1>1, MainMoves, Zenon
<1>3. c \in Contexts /\ TerminalInv(p) /\ Still(p) /\ Buffer(contexts[c].cur, TerminalRows)
  BY <1>1, ContextsApart DEF ScreenInv, TerminalInv, Started
<1>4. Buffer(rows, TerminalRows)
  BY <1>3, BufferIsSeq, RowsAreBuffer, DesktopConstants, Zenon
<1> HIDE DEF rows
<1>5. /\ contexts'[c].cur = rows /\ contexts'[c].scrollY = contexts[c].scrollY
      /\ \A d \in Contexts \ {c} : contexts'[d] = contexts[d]
  BY <1>1, <1>3, Drawn, Zenon
<1>6. Elsewhere(p) /\ Threads' /\ Ranges'
  BY <1>1, <1>2, <1>5 DEF Elsewhere, kvars, ScreenInv, Threads, Ranges
<1>7. TerminalInv(p)'
  BY <1>1, <1>2, <1>3, <1>4, <1>5 DEF TerminalInv, Still
<1>8. Shown' /\ Buffer(screen, ScreenRows)'
  <2>1. CASE Owns(p)
    <3>1. Owns(p)' /\ Busy(p)'
      BY <1>1, <1>2, <2>1 DEF Owns, Busy
    <3>2. contexts'[currentContext'].scrollY = contexts[currentContext].scrollY
      BY <1>1, <1>5, <2>1 DEF Owns
    <3>3. PositionCopied'
      BY <1>1, <3>2 DEF ScreenInv, Shown, PositionCopied, Owns
    <3> QED
      BY <1>1, <3>1, <3>3 DEF Shown, ScreenInv
  <2>2. CASE ~Owns(p)
    BY <1>1, <1>6, <2>2, ShownElsewhere DEF ScreenInv
  <2> QED
    BY <2>1, <2>2
<1> QED
  BY <1>6, <1>7, <1>8, StepScreen

\* ... and the screen is.
LEMMA ClearBlitScreen ==
  ASSUME ScreenInv, IInv', NEW p \in Apps, clear_blit(p)
  PROVE  ScreenInv'
<1> DEFINE c == vbeContext[p]
<1>1. /\ main[p].pc = "clearblit" /\ main' = [main EXCEPT ![p].pc = "idle"]
      /\ _vbe_blit_to_video_memory(contexts, c, contexts[c].scrollY, ScreenRows)
      /\ term' = [term EXCEPT ![p].max = TerminalRows - ScreenRows]
      /\ UNCHANGED <<kvars, processDisplayed, started, scrollY, currentContext, kbd, queue>>
  BY DEF clear_blit
<1>2. /\ main' = [q \in Apps |-> main'[q]] /\ \A q \in Apps \ {p} : main'[q] = main[q]
      /\ main'[p] = [pc |-> "idle", n |-> main[p].n]
  BY <1>1, MainMoves, Zenon
<1>3. /\ term' = [q \in Apps |-> term'[q]] /\ \A q \in Apps \ {p} : term'[q] = term[q]
      /\ term'[p] = [scrollY |-> term[p].scrollY, max |-> TerminalRows - ScreenRows,
                     row |-> term[p].row]
  <2>1. /\ DOMAIN term = Apps
        /\ term[p] = [scrollY |-> term[p].scrollY, max |-> term[p].max, row |-> term[p].row]
    BY DEF ScreenInv, Threads
  <2>2. term'[p] = [term[p] EXCEPT !.max = TerminalRows - ScreenRows]
    BY <1>1, <2>1
  <2> QED
    BY <1>1, <2>1, <2>2, Zenon
<1>4. /\ c \in Contexts /\ Buffer(screen', ScreenRows)
      /\ \A d \in Contexts : contexts'[d].cur = contexts[d].cur
                               /\ contexts'[d].scrollY = contexts[d].scrollY
      /\ c # currentContext => screen' = screen
  BY <1>1, ContextsApart, BlitFrame
<1>5. Elsewhere(p) /\ Threads' /\ Ranges'
  BY <1>1, <1>2, <1>3, <1>4 DEF Elsewhere, kvars, ScreenInv, Threads, Ranges
<1>6. TerminalInv(p) /\ Still(p) /\ Buffer(contexts[c].cur, TerminalRows)
  BY <1>1 DEF ScreenInv, TerminalInv, Started
<1>7. TerminalInv(p)'
  <2>1. Scrolls(p)'
    BY <1>1, <1>3, <1>4, <1>6, DesktopConstants DEF Still, Scrolls
  <2> QED
    BY <1>2, <1>3, <1>4, <1>6, <2>1 DEF TerminalInv, Started
<1>8. Shown'
  <2>1. CASE Owns(p)
    <3>1. \A q \in Apps : Owns(q) => q = p
      BY <2>1, ContextsApart DEF Owns
    <3>2. scrollY = contexts[currentContext].scrollY
      BY <1>6, <3>1 DEF ScreenInv, Shown, PositionCopied, Still
    <3> QED
      BY <1>1, <2>1, <3>2, RedrawShown DEF Owns
  <2>2. CASE ~Owns(p)
    BY <1>1, <1>4, <1>5, <2>2, ShownElsewhere DEF Owns
  <2> QED
    BY <2>1, <2>2
<1> QED
  BY <1>4, <1>5, <1>7, <1>8, StepScreen

\* vbe_render_char: a row of the buffer is drawn ...
LEMMA RenderScreen ==
  ASSUME ScreenInv, IInv', NEW p \in Apps, vbe_render_char(p)
  PROVE  ScreenInv'
<1> DEFINE c == vbeContext[p]
           row == term[p].row
           cur == contexts[c].cur
<1>1. /\ main[p].pc = "print" /\ main' = [main EXCEPT ![p].pc = "blit"]
      /\ \/ contexts' = contexts
         \/ contexts' = [contexts EXCEPT ![c].cur = [cur EXCEPT ![row + 1] = main[p].n]]
      /\ UNCHANGED <<kvars, processDisplayed, started, scrollY, screen, currentContext, kbd,
                     queue, term>>
  BY DEF vbe_render_char
<1>2. /\ main' = [q \in Apps |-> main'[q]] /\ \A q \in Apps \ {p} : main'[q] = main[q]
      /\ main'[p] = [pc |-> "blit", n |-> main[p].n]
  BY <1>1, MainMoves, Zenon
<1>3. c \in Contexts /\ TerminalInv(p) /\ Started(p)
  BY <1>1, ContextsApart DEF ScreenInv, TerminalInv, Started
<1>4. /\ contexts'[c].cur \in {cur, [cur EXCEPT ![row + 1] = main[p].n]}
      /\ contexts'[c].scrollY = contexts[c].scrollY
      /\ \A d \in Contexts \ {c} : contexts'[d] = contexts[d]
  <2> DEFINE rows == [cur EXCEPT ![row + 1] = main[p].n]
  <2> HIDE DEF rows
  <2>1. CASE contexts' = [contexts EXCEPT ![c].cur = rows]
    BY <1>3, <2>1, Drawn DEF rows
  <2> QED
    BY <1>1, <2>1 DEF rows
<1>5. Elsewhere(p) /\ Threads' /\ Ranges'
  BY <1>1, <1>2, <1>4 DEF Elsewhere, kvars, ScreenInv, Threads, Ranges
<1>6. TerminalInv(p)'
  <2>1. \A h : Buffer(cur, h) => Buffer(contexts'[c].cur, h)
    BY <1>4, Zenon DEF Buffer
  <2>2. Still(p) => Still(p)'
    BY <1>1, <1>4 DEF Still
  <2>3. Scrolls(p) => Scrolls(p)'
    BY <1>1, <1>4 DEF Scrolls
  <2>4. Started(p)' /\ term' = term
    BY <1>1, <1>2 DEF Started
  <2> QED
    BY <1>1, <1>3, <2>1, <2>2, <2>3, <2>4 DEF TerminalInv
<1>7. Shown' /\ Buffer(screen, ScreenRows)'
  <2>1. CASE Owns(p)
    <3>1. /\ contexts'[currentContext'].scrollY = contexts[currentContext].scrollY
          /\ currentContext = c /\ \A q \in Apps : Owns(q)' <=> q = p
      BY <1>1, <1>4, <2>1, ContextsApart DEF Owns
    <3>2. PositionCopied'
      BY <1>1, <3>1 DEF ScreenInv, Shown, PositionCopied, Owns
    <3>3. ASSUME ~Busy(p)' PROVE Image'
      <4>1. Image /\ scrollY = contexts[currentContext].scrollY
        BY <1>1, <2>1, <3>1, <3>3, ContextsApart
           DEF ScreenInv, Shown, PositionCopied, Owns, Busy
      <4>2. ASSUME NEW i \in 1 .. ScreenRows, row # scrollY + i - 1
            PROVE  screen'[i] = contexts'[currentContext'].cur[scrollY' + i]
        <5>1. screen[i] = cur[scrollY + i]
          <6>1. \A q \in Apps : Owns(q) => q = p
            BY <2>1, ContextsApart DEF Owns
          <6> QED
            BY <1>1, <3>1, <4>1, <6>1 DEF Image
        <5>2. scrollY \in Nat /\ row \in Nat
          <6>1. row \in Nat
            BY <1>3, DesktopConstants DEF TerminalInv
          <6>2. PICK h \in {ScreenRows, TerminalRows} :
                  h \in Nat /\ contexts[c].scrollY \in 0 .. h - ScreenRows
            BY <1>3, Heights
          <6> QED
            BY <3>1, <4>1, <6>1, <6>2, DesktopConstants
        <5>3. row + 1 # scrollY + i
          <6>1. \A r, y \in Nat, j \in Int : r # y + j - 1 => r + 1 # y + j
            OBVIOUS
          <6>2. i \in Int
            BY SMTT(30)
          <6> QED
            BY <4>2, <5>2, <6>1, <6>2, Zenon
        <5>4. contexts'[c].cur[scrollY + i] = cur[scrollY + i]
          <6>1. PICK h \in Nat : Buffer(cur, h) /\ scrollY + i \in 1 .. h
            BY <1>3, <3>1, <4>1, Heights, DesktopConstants
          <6> QED
            BY <1>4, <5>3, <6>1 DEF Buffer
        <5> QED
          BY <1>1, <3>1, <5>1, <5>4
      <4> QED
        BY <1>1, <1>2, <3>1, <4>2 DEF Image
    <3> QED
      BY <1>1, <3>1, <3>2, <3>3 DEF Shown, ScreenInv
  <2>2. CASE ~Owns(p)
    BY <1>1, <1>5, <2>2, ShownElsewhere DEF ScreenInv
  <2> QED
    BY <2>1, <2>2
<1> QED
  BY <1>5, <1>6, <1>7, StepScreen

\* ... and brought to the screen.
LEMMA RenderBlitScreen ==
  ASSUME ScreenInv, IInv', NEW p \in Apps, render_blit(p)
  PROVE  ScreenInv'
<1> DEFINE c == vbeContext[p]
           row == term[p].row
           cur == contexts[c].cur
<1>1. /\ main[p].pc = "blit" /\ main' = [main EXCEPT ![p].pc = "idle"]
      /\ term' = [term EXCEPT ![p].row = (row + 1) % TerminalRows]
      /\ \/ row < Len(cur) /\ _vbe_blit_to_video_memory(contexts, c, row, 1)
         \/ ~(row < Len(cur)) /\ contexts' = contexts /\ screen' = screen
      /\ UNCHANGED <<kvars, processDisplayed, started, scrollY, currentContext, kbd, queue>>
  BY DEF render_blit
<1>2. /\ main' = [q \in Apps |-> main'[q]] /\ \A q \in Apps \ {p} : main'[q] = main[q]
      /\ main'[p] = [pc |-> "idle", n |-> main[p].n]
  BY <1>1, MainMoves, Zenon
<1>3. /\ c \in Contexts /\ TerminalInv(p) /\ Started(p)
      /\ row \in Nat /\ (row + 1) % TerminalRows \in 0 .. TerminalRows - 1
  <2>1. TerminalInv(p) /\ Started(p) /\ c \in Contexts
    BY <1>1, ContextsApart DEF ScreenInv, TerminalInv, Started
  <2>2. row \in 0 .. TerminalRows - 1
    BY <1>1, <2>1 DEF TerminalInv
  <2>3. \A r, n \in Nat : n > 0 => (r + 1) % n \in 0 .. n - 1
    OBVIOUS
  <2>4. TerminalRows \in Nat /\ TerminalRows > 0 /\ row \in Nat
    BY <2>2, DesktopConstants
  <2>5. (row + 1) % TerminalRows \in 0 .. TerminalRows - 1
    BY <2>3, <2>4, Zenon
  <2> QED
    BY <2>1, <2>4, <2>5
<1>4. /\ term' = [q \in Apps |-> term'[q]] /\ \A q \in Apps \ {p} : term'[q] = term[q]
      /\ term'[p] = [scrollY |-> term[p].scrollY, max |-> term[p].max,
                     row |-> (row + 1) % TerminalRows]
  <2>1. /\ DOMAIN term = Apps
        /\ term[p] = [scrollY |-> term[p].scrollY, max |-> term[p].max, row |-> term[p].row]
    BY DEF ScreenInv, Threads
  <2> DEFINE r == (row + 1) % TerminalRows
  <2> HIDE DEF r
  <2>2. term'[p] = [term[p] EXCEPT !.row = r]
    BY <1>1, <2>1 DEF r
  <2>3. term'[p] = [scrollY |-> term[p].scrollY, max |-> term[p].max, row |-> r]
    BY <2>1, <2>2
  <2> QED
    BY <1>1, <2>1, <2>3, Zenon DEF r
<1>5. /\ Buffer(screen', ScreenRows)
      /\ \A d \in Contexts : contexts'[d].cur = contexts[d].cur
                               /\ contexts'[d].scrollY = contexts[d].scrollY
      /\ c # currentContext \/ ~(row < Len(cur))
           \/ ~(scrollY <= row /\ row < scrollY + ScreenRows) => screen' = screen
  BY <1>1, <1>3, BlitFrame, SMTT(30) DEF ScreenInv
<1>6. Elsewhere(p) /\ Threads' /\ Ranges'
  BY <1>1, <1>2, <1>4, <1>5 DEF Elsewhere, kvars, ScreenInv, Threads, Ranges
<1>7. TerminalInv(p)'
  <2>1. Still(p) => Still(p)'
    BY <1>1, <1>3, <1>4, <1>5 DEF Still
  <2>2. Scrolls(p) => Scrolls(p)'
    BY <1>1, <1>3, <1>4, <1>5 DEF Scrolls
  <2>3. Started(p)' /\ contexts'[c].cur = cur /\ term'[p].row \in 0 .. TerminalRows - 1
    BY <1>2, <1>3, <1>4, <1>5 DEF Started
  <2> QED
    BY <1>1, <1>3, <2>1, <2>2, <2>3 DEF TerminalInv
<1>8. Shown'
  <2>1. CASE Owns(p)
    <3>1. /\ contexts'[currentContext'].scrollY = contexts[currentContext].scrollY
          /\ contexts'[currentContext'].cur = cur
          /\ currentContext = c /\ \A q \in Apps : Owns(q)' <=> q = p
      BY <1>1, <1>3, <1>5, <2>1, ContextsApart DEF Owns
    <3>2. PositionCopied'
      BY <1>1, <3>1 DEF ScreenInv, Shown, PositionCopied, Owns
    <3>3. ASSUME ~Busy(p)' PROVE Image'
      <4>1. Image /\ scrollY = contexts[currentContext].scrollY
        BY <1>1, <2>1, <3>1, <3>3, ContextsApart
           DEF ScreenInv, Shown, PositionCopied, Owns, Busy
      <4>2. PICK h \in {ScreenRows, TerminalRows} :
              /\ Buffer(cur, h) /\ h \in Nat
              /\ contexts[c].scrollY \in 0 .. h - ScreenRows
        BY <1>3, Heights
      <4>3. scrollY \in Nat /\ scrollY + ScreenRows <= h /\ Len(cur) = h
        <5>1. scrollY \in 0 .. h - ScreenRows
          BY <3>1, <4>1, <4>2
        <5>2. Len(cur) = h
          BY <4>2, BufferIsSeq, Zenon
        <5>3. \A y, a, b \in Nat : y \in 0 .. a - b => y + b <= a
          OBVIOUS
        <5> QED
          BY <4>2, <5>1, <5>2, <5>3, DesktopConstants
      <4>4. ASSUME NEW i \in 1 .. ScreenRows
            PROVE  screen'[i] = cur[scrollY + i]
        <5>1. CASE row = scrollY + i - 1
          <6>1. scrollY <= row /\ row < scrollY + ScreenRows /\ row < h
            <7>1. \A r, y, k, n, z \in Nat :
                    k \in 1 .. n /\ y + n <= z /\ r = y + k - 1 => y <= r /\ r < y + n /\ r < z
              OBVIOUS
            <7>2. i \in Nat /\ ScreenRows \in Nat /\ h \in Nat
              BY <4>2, DesktopConstants
            <7> QED
              BY <1>3, <4>3, <5>1, <7>1, <7>2, Zenon
          <6>2. _vbe_blit_to_video_memory(contexts, currentContext, row, 1)
            BY <1>1, <3>1, <4>3, <6>1
          <6>3. scrollY + i - 1 \in row .. row + 1 - 1
            <7>1. \A r \in Nat : r \in r .. r + 1 - 1
              OBVIOUS
            <7> QED
              BY <1>3, <5>1, <7>1, Zenon
          <6> QED
            BY <1>3, <3>1, <4>3, <6>1, <6>2, <6>3, BlitRows, SMTT(30)
        <5>2. CASE row # scrollY + i - 1
          <6>1. \A q \in Apps : Owns(q) => q = p
            BY <2>1, ContextsApart DEF Owns
          <6>2. screen[i] = cur[scrollY + i]
            BY <3>1, <4>1, <5>2, <6>1 DEF Image
          <6>3. CASE screen' = screen
            BY <6>2, <6>3
          <6>4. CASE screen' # screen
            <7>1. /\ _vbe_blit_to_video_memory(contexts, currentContext, row, 1)
                  /\ scrollY <= row /\ row < scrollY + ScreenRows
              BY <1>1, <1>5, <3>1, <6>4
            <7>2. scrollY + i - 1 \notin row .. row + 1 - 1
              BY <1>3, <4>3, <5>2, DesktopConstants
            <7>3. screen'[i] = IF scrollY + i - 1 \in row .. row + 1 - 1
                               THEN contexts[currentContext].cur[scrollY + i] ELSE screen[i]
              <8>1. row \in Int /\ 1 \in Nat /\ scrollY \in Int
                BY <1>3, <4>3
              <8> QED
                BY <7>1, <8>1, BlitRows
            <7> QED
              BY <6>2, <7>2, <7>3
          <6> QED
            BY <6>3, <6>4
        <5> QED
          BY <5>1, <5>2, SMTT(30)
      <4> QED
        BY <1>1, <3>1, <4>4, Zenon DEF Image
    <3> QED
      BY <3>1, <3>2, <3>3 DEF Shown
  <2>2. CASE ~Owns(p)
    BY <1>1, <1>5, <1>6, <2>2, ShownElsewhere DEF Owns
  <2> QED
    BY <2>1, <2>2
<1> QED
  BY <1>5, <1>6, <1>7, <1>8, StepScreen

\* One step of the keyboard interrupt, of a keyboard thread or of a main thread.
LEMMA NextScreen == ScreenInv /\ [Next]_vars => ScreenInv'
<1> SUFFICES ASSUME ScreenInv, [Next]_vars PROVE ScreenInv'
  OBVIOUS
<1>1. IInv'
  BY NextIInv DEF ScreenInv
<1>2. CASE UNCHANGED vars
  <2>1. /\ UNCHANGED <<vvars, kbd, queue, term, main>>
        /\ UNCHANGED <<pressedKeys, receivedE0, processDisplayed, started>>
    BY <1>2 DEF vars, kvars
  <2>2. Ranges'
    BY <2>1 DEF ScreenInv, Ranges, Room
  <2> QED
    BY <1>1, <2>1, <2>2, IdleScreen
<1>3. ASSUME NEW p \in Apps, KeyboardThread(p) PROVE ScreenInv'
  BY <1>1, <1>3, MessageScreen, ScrollScreen, ScrollLockedScreen, ScrollBlitScreen, AddScreen,
     SwitchScreen, Zenon DEF KeyboardThread
<1>4. ASSUME NEW p \in Apps, MainThread(p) PROVE ScreenInv'
  BY <1>1, <1>4, AllocateScreen, ClearScreen, ClearBlitScreen, RetrieveScreen, RenderScreen,
     RenderBlitScreen, Zenon DEF MainThread
<1> QED
  BY <1>1, <1>2, <1>3, <1>4, KeyboardScreen, Zenon DEF Next

\* The screen shows the visible part of the current context, but for a row just
\* drawn, a scroll or a start under way, for screens and terminals of any height
\* and whatever is typed: no interleaving of drawing, scrolling, switching and
\* starting leaves an old image behind (vbe.c).
THEOREM ScreenIsRight == Spec => []ScreenShowsContext
BY InitScreen, NextScreen, ScreenInvEnough, PTL DEF Spec
=============================================================================
