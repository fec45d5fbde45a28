------------------------------ MODULE KeyBind -------------------------------
(***************************************************************************)
(* lua-keybind: main.c passes key events to key.lua, which looks up the    *)
(* handlers that user.lua has bound.  A shortcut opens a context that      *)
(* lasts while its modifier is held: bindings made in it end with it, and  *)
(* its callback then commits the screen that was previewed.                *)
(* Events come one at a time.  When the window loses the focus, SDL lets   *)
(* go of every key that is held.  Drawing and the locks are left out.      *)
(***************************************************************************)
EXTENDS Naturals

CONSTANT MAX_SCREEN      (* screens of user.lua and indicators of main.c   *)

ASSUME ScreenAssumption == MAX_SCREEN \in Nat \ {0}

VARIABLES
  app,                   (* "off", "running" or "quit"                     *)
  focus, held,           (* SDL: the window has the focus; keys held       *)
  ctx_mod, ctx_binds, ctx_free_callback,     (* key.lua                    *)
  selected,              (* user.lua                                       *)
  preview_index, selected_index              (* struct AppState            *)

context == <<ctx_mod, ctx_binds, ctx_free_callback>>
screens == <<selected, preview_index, selected_index>>
keyVars == <<app, focus, held, context, screens>>

Key(n)   == [name |-> n, number |-> 0]
Digit(i) == [name |-> "digit", number |-> i]
ModKeys  == {Key(n) : n \in {"Left Ctrl", "Right Ctrl", "Left Shift", "Left Alt"}}
Keys     == ModKeys \cup {Key(n) : n \in {"Tab", "Grave", "Escape"}} \cup {Digit(i) : i \in 1 .. MAX_SCREEN}

ModOf(k) == CASE k.name \in {"Left Ctrl", "Right Ctrl"} -> "ctrl"
              [] k.name = "Left Shift" -> "shift"
              [] k.name = "Left Alt"   -> "alt"
              [] OTHER                 -> "none"

\* normalize_mod: both sides of a modifier are one.
Mods(ks) == {ModOf(k) : k \in ks \cap ModKeys}

Binding(mods, key, fn) == [mods |-> mods, key |-> key, fn |-> fn]

\* The shortcuts of user.lua
pub_binds ==
  {Binding({"ctrl"}, Key("Tab"), "next, set up"), Binding({"ctrl", "shift"}, Key("Tab"), "prev, set up"),
   Binding({"ctrl"}, Key("Grave"), "reset")}
  \cup {Binding({"ctrl"}, Digit(i), "commit") : i \in 1 .. MAX_SCREEN}

\* setup_context_bindings
SetupBinds(mod) ==
  {Binding({mod}, Key("Tab"), "next"), Binding({mod, "shift"}, Key("Tab"), "prev"),
   Binding({mod}, Key("Grave"), "prev")}

KeyTypeOK ==
  /\ app \in {"off", "running", "quit"} /\ focus \in BOOLEAN /\ held \subseteq Keys
  /\ ctx_mod \in {"none", "ctrl", "alt"} /\ ctx_free_callback \in BOOLEAN
  /\ ctx_binds \in {{}} \cup {SetupBinds(m) : m \in {"ctrl", "alt"}}
  /\ selected \in 1 .. MAX_SCREEN /\ preview_index \in 0 .. MAX_SCREEN /\ selected_index \in 1 .. MAX_SCREEN

KeyInit ==
  /\ app = "off" /\ focus = FALSE /\ held = {}
  /\ ctx_mod = "none" /\ ctx_binds = {} /\ ctx_free_callback = FALSE
  /\ selected = 1 /\ preview_index = 0 /\ selected_index = 1

-----------------------------------------------------------------------------
(* The handlers                                                            *)

\* SDL_AppInit: everything that may fail ends the program.
AppInit ==
  /\ app = "off"
  /\ \/ app' = "running" /\ focus' = TRUE
     \/ app' = "quit" /\ UNCHANGED focus
  /\ UNCHANGED <<held, context, screens>>

Show(s)   == selected' = s /\ preview_index' = s /\ UNCHANGED selected_index
Commit(s) == selected' = s /\ preview_index' = 0 /\ selected_index' = s

NextScreen == IF selected = MAX_SCREEN THEN 1 ELSE selected + 1
PrevScreen == IF selected = 1 THEN MAX_SCREEN ELSE selected - 1

\* aa.bind in the context ctx; without one the free callback is an error, which
\* leaves the rest of the handler undone.
SetUp(ctx) ==
  IF ctx = "none" THEN UNCHANGED <<ctx_binds, ctx_free_callback>>
  ELSE ctx_binds' = SetupBinds(ctx) /\ ctx_free_callback' = TRUE

\* call_handler, in the context ctx
CallHandler(fn, key, ctx) ==
  CASE fn = "next, set up" -> Show(NextScreen) /\ SetUp(ctx)
    [] fn = "prev, set up" -> Show(PrevScreen) /\ SetUp(ctx)
    [] OTHER -> /\ UNCHANGED <<ctx_binds, ctx_free_callback>>
                /\ CASE fn = "next"  -> Show(NextScreen)
                     [] fn = "prev"  -> Show(PrevScreen)
                     [] fn = "reset" -> Commit(1)
                     [] OTHER        -> Commit(key.number)

\* Mutant: only a modifier alone opens a context.
ContextModAlone(mods) == IF mods = {"ctrl"} THEN "ctrl" ELSE IF mods = {"alt"} THEN "alt" ELSE "none"

\* context_mod_from_shortcut: the first of the primary modifiers
ContextMod(mods) == IF "ctrl" \in mods THEN "ctrl" ELSE IF "alt" \in mods THEN "alt" ELSE "none"

\* create_context leaves an open context alone.
Created(mods) == IF ctx_mod # "none" THEN ctx_mod ELSE ContextMod(mods)

Bound(binds, mods, key) == {b \in binds : b.mods = mods /\ b.key = key}

\* on_key_down: the bindings of the context come first.
OnKeyDown(key, mods) ==
  LET mine   == Bound(ctx_binds, mods, key)
      public == Bound(pub_binds, mods, key)
  IN  \/ \E b \in mine : CallHandler(b.fn, key, ctx_mod) /\ UNCHANGED ctx_mod
      \/ /\ mine = {}
         /\ \E b \in public : ctx_mod' = Created(mods) /\ CallHandler(b.fn, key, ctx_mod')
      \/ mine = {} /\ public = {} /\ UNCHANGED <<context, screens>>

\* destroy_context, with the callback of user.lua
DestroyContext ==
  /\ ctx_binds' = {} /\ ctx_mod' = "none" /\ ctx_free_callback' = FALSE
  /\ IF ctx_free_callback THEN Commit(selected) ELSE UNCHANGED screens

-----------------------------------------------------------------------------
(* SDL_AppEvent                                                            *)

KeyDown ==
  /\ app = "running" /\ focus
  /\ \E k \in (Keys \ held) :
       /\ held' = held \cup {k}
       /\ \/ k = Key("Escape") /\ app' = "quit" /\ UNCHANGED <<context, screens>>
          \/ k # Key("Escape") /\ OnKeyDown(k, Mods(held')) /\ UNCHANGED app
  /\ UNCHANGED focus

\* on_key_up: released_mod is the context's, from either side
KeyUp ==
  /\ app = "running"
  /\ \E k \in held :
       /\ held' = held \ {k}
       /\ \/ ctx_mod # "none" /\ ModOf(k) = ctx_mod /\ DestroyContext
          \/ (ctx_mod = "none" \/ ModOf(k) # ctx_mod) /\ UNCHANGED <<context, screens>>
  /\ UNCHANGED <<app, focus>>

WindowClosed ==
  /\ app = "running" /\ app' = "quit"
  /\ UNCHANGED <<focus, held, context, screens>>

\* SDL: without the focus the keys are let go, and with it they start anew.
FocusChanges ==
  /\ app = "running"
  /\ \/ focus /\ focus' = FALSE
     \/ ~focus /\ held = {} /\ focus' = TRUE
  /\ UNCHANGED <<app, held, context, screens>>

KeyNext == AppInit \/ KeyDown \/ KeyUp \/ WindowClosed \/ FocusChanges

KeySpec == KeyInit /\ [][KeyNext]_keyVars

-----------------------------------------------------------------------------
(* Properties.                                                             *)

\* The C side's screens, key.lua's context and the keys held agree in every
\* order of presses and releases, of two Ctrl keys or of all at once when the
\* focus goes: a context lasts no longer than its modifier is held, a preview no
\* longer than the context that will commit it, and outside of one the screen
\* shown as selected is the one user.lua counts from.
PreviewCommitted ==
  /\ ctx_mod # "none" => ctx_mod \in Mods(held)
  /\ preview_index # 0 => preview_index = selected /\ ctx_free_callback
  /\ preview_index = 0 => selected = selected_index
  /\ ctx_mod = "none" => ctx_binds = {} /\ ~ctx_free_callback

=============================================================================
