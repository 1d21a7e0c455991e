---------------------------- MODULE TerminalSize ----------------------------
(***************************************************************************)
(* The width of the services' terminals: the TUI computes it from its own  *)
(* terminal and layout (micromux-tui lib.rs, state.rs) and queues it for   *)
(* the scheduler, which keeps it for new runs and passes it to the running *)
(* ones (scheduler.rs); the log reader's emulator follows between two      *)
(* reads (scheduler/pty.rs).  The height takes the same way.                *)
(***************************************************************************)
EXTENDS Naturals, Sequences, SequencesExt

CONSTANTS
  SizedServices, \* services of the session
  Widths,      \* widths the TUI's terminal may take
  InitialWidth,\* default current_pty_size
  Sidebar,     \* [initial, minimum, step, reserve]: style.rs and the "22" kept
               \* free of the sidebar
  CommandCapacity, \* of the scheduler's command channel
  MaxChanges   \* bound: user actions

\* Assumed by the modules that instantiate this one.
SizeAssumption ==
  /\ Widths \subseteq Nat \ {0} /\ InitialWidth \in Nat \ {0}
  /\ CommandCapacity \in Nat \ {0}
  /\ Sidebar \in [initial : Nat, minimum : Nat, step : Nat, reserve : Nat]

VARIABLES
  width,     \* terminal_cols
  sidebar,   \* services_sidebar_width
  pane,      \* show_healthcheck_pane
  last,      \* last_pty_cols, 0 before the first
  commands,  \* the command channel: widths of ResizeAll, 0 for another command
  current,   \* current_pty_size
  master,    \* [service |-> size of its run's terminal, 0 without a run]
  emulator,  \* [service |-> size of the reader's Term]
  sizeCheck, \* [service |-> "check" the size or "read"]
  stale,     \* history: chunks read at another size since the last resize
  changes    \* bound

uiVars == <<width, sidebar, pane, last, changes>>
ptyVars == <<master, emulator, sizeCheck, stale>>
sizeVars == <<uiVars, commands, current, ptyVars>>

Less(n, m) == IF n > m THEN n - m ELSE 0
Least(n, m) == IF n < m THEN n ELSE m
Most(n, m) == IF n > m THEN n ELSE m

-----------------------------------------------------------------------------
\* App::desired_pty_size: what the sidebar, the split, the scrollbar and the
\* borders leave.
DesiredPtySize(w, side, split) ==
  LET right == Less(w, side)
      logs == IF split THEN right \div 2 ELSE right
  IN  Most(Less(Less(logs, 1), 2), 1)

\* State::clamp_sidebar.
ClampSidebar(side, most) ==
  IF most < Sidebar.minimum THEN Least(side, most)
  ELSE Least(Most(side, Sidebar.minimum), most)

\* State::resize_left and resize_right.
Narrower(side) == Most(Less(side, Sidebar.step), Least(side, Sidebar.minimum))
Wider(side, most) ==
  IF most < Sidebar.minimum THEN Least(side + Sidebar.step, most)
  ELSE Least(Most(side + Sidebar.step, Sidebar.minimum), most)

\* Mutant: the cache is advanced although the channel is full.
MaybeResizeForgetful(cols) ==
  /\ last' = cols
  /\ commands' = IF cols # last /\ Len(commands) < CommandCapacity
                   THEN Append(commands, cols) ELSE commands

\* App::maybe_resize_pty: the cache advances only with what was queued.
MaybeResize(cols) ==
  IF cols # last /\ Len(commands) < CommandCapacity
    THEN last' = cols /\ commands' = Append(commands, cols)
    ELSE UNCHANGED <<last, commands>>

\* The layout changes, and the size with it.
Layout(w, side, split) ==
  /\ changes < MaxChanges
  /\ changes' = changes + 1
  /\ width' = w /\ sidebar' = side /\ pane' = split
  /\ MaybeResize(DesiredPtySize(w, side, split))
  /\ UNCHANGED <<current, ptyVars>>

Unreserved(w) == Less(w, Sidebar.reserve)

TerminalResized(w) == Layout(w, ClampSidebar(sidebar, Unreserved(w)), pane)
ResizeLeft == Layout(width, Narrower(sidebar), pane)
ResizeRight == Layout(width, Wider(sidebar, Unreserved(width)), pane)
TogglePane == Layout(width, sidebar, ~pane)

-----------------------------------------------------------------------------
\* Other clients' commands share the channel.
OtherCommand ==
  /\ Len(commands) < CommandCapacity
  /\ commands' = Append(commands, 0)
  /\ UNCHANGED <<uiVars, current, ptyVars>>

\* Command::ResizeAll, PtyHandles::resize.
HandleCommand ==
  /\ commands # <<>>
  /\ commands' = Tail(commands)
  /\ LET cols == Head(commands)
     IN  IF cols = 0 THEN UNCHANGED <<current, master, stale>>
         ELSE /\ current' = cols
              /\ master' = [s \in SizedServices |-> IF master[s] = 0 THEN 0 ELSE cols]
              /\ stale' = [s \in SizedServices |-> 0]
  /\ UNCHANGED <<uiVars, emulator, sizeCheck>>

\* A run starts with the scheduler's size.
StartSized(s) ==
  /\ master[s] = 0
  /\ master' = [master EXCEPT ![s] = current]
  /\ emulator' = [emulator EXCEPT ![s] = current]
  /\ sizeCheck' = [sizeCheck EXCEPT ![s] = "check"]
  /\ stale' = [stale EXCEPT ![s] = 0]
  /\ UNCHANGED <<uiVars, commands, current>>

ExitSized(s) ==
  /\ master[s] # 0
  /\ master' = [master EXCEPT ![s] = 0]
  /\ UNCHANGED <<uiVars, commands, current, emulator, sizeCheck, stale>>

\* The reader loop looks at the size, then waits for output.
CheckSize(s) ==
  /\ master[s] # 0 /\ sizeCheck[s] = "check"
  /\ emulator' = [emulator EXCEPT ![s] = master[s]]
  /\ sizeCheck' = [sizeCheck EXCEPT ![s] = "read"]
  /\ UNCHANGED <<uiVars, commands, current, master, stale>>

ReadChunk(s) ==
  /\ master[s] # 0 /\ sizeCheck[s] = "read"
  /\ stale' = [stale EXCEPT ![s] = IF emulator[s] = master[s] THEN @ ELSE Least(@ + 1, 2)]
  /\ sizeCheck' = [sizeCheck EXCEPT ![s] = "check"]
  /\ UNCHANGED <<uiVars, commands, current, master, emulator>>

-----------------------------------------------------------------------------
\* App::run sizes the terminals before it draws.
SizeInit ==
  /\ width \in Widths
  /\ sidebar = ClampSidebar(Sidebar.initial, Unreserved(width))
  /\ pane = FALSE
  /\ last = DesiredPtySize(width, sidebar, pane) /\ commands = <<last>>
  /\ current = InitialWidth
  /\ master = [s \in SizedServices |-> 0] /\ emulator = master
  /\ sizeCheck = [s \in SizedServices |-> "check"]
  /\ stale = [s \in SizedServices |-> 0]
  /\ changes = 0

SizeNext ==
  \/ \E w \in Widths : TerminalResized(w)
  \/ ResizeLeft \/ ResizeRight \/ TogglePane
  \/ OtherCommand \/ HandleCommand
  \/ \E s \in SizedServices : StartSized(s) \/ ExitSized(s) \/ CheckSize(s) \/ ReadChunk(s)

SizeSpec == SizeInit /\ [][SizeNext]_sizeVars

-----------------------------------------------------------------------------
(* The size that the TUI takes for settled is the one that every running       *)
(* terminal has or that the last resize on its way will give it, although      *)
(* resizes are dropped when the channel is full (maybe_resize_pty); and at     *)
(* most one chunk is read at another size than the terminal's (the size check  *)
(* of the reader loop).                                                        *)
SizesAgree ==
  /\ \/ last = current /\ \A i \in DOMAIN commands : commands[i] = 0
     \/ \E i \in DOMAIN commands :
          /\ last = commands[i] /\ commands[i] # 0
          /\ \A j \in DOMAIN commands : i < j => commands[j] = 0
  /\ \A s \in SizedServices : master[s] \in {0, current} /\ stale[s] <= 1
=============================================================================
