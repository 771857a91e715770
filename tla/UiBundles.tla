----------------------------- MODULE UiBundles -----------------------------
(***************************************************************************)
(* The desktop app's interface updates (desktop/src/main/ui-updater.ts and *)
(* ui-bundle/store.ts): checks of a signed feed, by a timer and by the     *)
(* user; bundles that are downloaded, staged, activated on a reload of the *)
(* window, and dropped when the window does not say in time that they      *)
(* rendered.                                                               *)
(*                                                                         *)
(* The main process is one thread; a check gives it up while it fetches,   *)
(* downloads and waits for the user.  Nothing keeps the timer's checks and *)
(* the user's apart, or a check from one whose dialog is still open.  The  *)
(* window's messages are delivered later, maybe after the next reload.     *)
(* The store's memo of the active directory is always what it would        *)
(* compute: every write of the state clears it and prune keeps that        *)
(* directory.  Left out: the shell version a bundle needs, a state file    *)
(* that cannot be written, and the status shown to the user.               *)
(***************************************************************************)
EXTENDS Integers, Sequences, FiniteSets, FiniteSetsExt

CONSTANTS
    Revisions,   \* the revisions that are published, as numbers
    Floors,      \* the revisions of the UI that app versions ship with
    Broken,      \* the revisions that never render
    Pinned,      \* a feed that says pinToShipped
    Nothing,     \* no revision (the store's null), no manifest, no window
    MaxSentinels,\* bound on the boot sentinels that run at once
    MaxDialogs,  \* from here on the timer's dialogs are not told apart
    MaxUiEvents  \* bound on publications, restarts, failures and reloads

ASSUME RevisionsAssumption ==
    /\ Revisions \subseteq Nat /\ Floors \subseteq Nat /\ Floors # {}
    /\ Broken \subseteq Revisions
    /\ Pinned \notin Nat /\ Nothing \notin Nat /\ Pinned # Nothing

Checkers == {"timer", "user"}

VARIABLES
    feed,       \* the manifest on the server
    shipped,    \* shippedStamp().revision
    state,      \* current.json: [revision, pendingVerify, quarantined]
    bundles,    \* revision -> "none", "whole" or "damaged" in its directory
    check,      \* checker -> runCheck: [pc, manifest]
    dialogs,    \* reload dialogs of the timer's checks that are open
    promptShown, staged, awaitingBootConfirmation,
    sentinels,  \* the revisions of the running boot sentinels, in order
    window,     \* [page, stage]: the revision it loaded, how far it came
    ready,      \* an agendex:ui-ready message is on its way
    uiEvents

updater == <<check, dialogs, promptShown, staged, awaitingBootConfirmation, sentinels>>
screen == <<window, ready>>
uiVars == <<feed, shipped, state, bundles, updater, screen, uiEvents>>

Idle == [pc |-> "idle", manifest |-> Nothing]
NoWindow == [page |-> Nothing, stage |-> "none"]

UiEvent == uiEvents < MaxUiEvents /\ uiEvents' = uiEvents + 1

-----------------------------------------------------------------------------
(* The store *)

(* computeActiveDir and servedRevision *)
ServedOf(st, b, floor) ==
    IF /\ st.revision # Nothing
       /\ st.revision \notin st.quarantined
       /\ b[st.revision] # "none"
       /\ st.revision > floor
    THEN st.revision ELSE floor
Served == ServedOf(state, bundles, shipped)

(* Mutant: what is reverted stays in doubt. *)
RevertedInDoubt(st) == [st EXCEPT !.revision = Nothing]
Reverted(st) == [st EXCEPT !.revision = Nothing, !.pendingVerify = FALSE]
Activated(r) == [state EXCEPT !.revision = r, !.pendingVerify = TRUE]

Quarantined(r) == [Reverted(state) EXCEPT !.quarantined = @ \cup {r}]

(* prune: what stays is the active bundle and the newest others, two in all *)
Pruned(st, b) ==
    LET others == {r \in Revisions : b[r] # "none"} \ {st.revision}
        room == IF st.revision = Nothing THEN 2 ELSE 1
        kept == {st.revision}
                  \cup {r \in others : Cardinality({q \in others : q > r}) < room}
    IN  [r \in Revisions |-> IF r \in kept THEN b[r] ELSE "none"]

(* reloadMainWindow onto what the store now resolves to. *)
Reload(st) ==
    window' = IF window = NoWindow THEN window
              ELSE [page |-> ServedOf(st, bundles', shipped), stage |-> "loading"]

UiInit ==
    /\ feed \in Revisions \cup {Pinned}
    /\ shipped = Min(Floors)
    /\ state = [revision |-> Nothing, pendingVerify |-> FALSE, quarantined |-> {}]
    /\ bundles = [r \in Revisions |-> "none"]
    /\ check = [c \in Checkers |-> Idle]
    /\ dialogs = 0 /\ promptShown = FALSE /\ staged = Nothing
    /\ awaitingBootConfirmation = FALSE /\ sentinels = <<>>
    /\ window = [page |-> shipped, stage |-> "loading"] /\ ready = FALSE
    /\ uiEvents = 0

-----------------------------------------------------------------------------
(* A check: runCheck *)

(* The timer starts one whatever else is on; checkPending holds the user's *)
(* back.  The manifest is the feed's of this moment.                       *)
CheckStarts(c) ==
    /\ check[c] = Idle
    /\ check' = [check EXCEPT ![c] = [pc |-> "fetched", manifest |-> feed]]
    /\ UNCHANGED <<feed, shipped, state, bundles, dialogs, promptShown, staged,
                   awaitingBootConfirmation, sentinels, screen, uiEvents>>

(* No manifest that verifies, or no bundle that does. *)
CheckFails(c) ==
    /\ check[c].pc \in {"fetched", "installing"} /\ UiEvent
    /\ check' = [check EXCEPT ![c] = Idle]
    /\ UNCHANGED <<feed, shipped, state, bundles, dialogs, promptShown, staged,
                   awaitingBootConfirmation, sentinels, screen>>

Fetched(c) == check[c].pc = "fetched"
Ends(c) == check' = [check EXCEPT ![c] = Idle]
Overridden == state.revision # Nothing

(* Mutant: the pin only stops updates. *)
KeepPinned(c) ==
    /\ Fetched(c) /\ check[c].manifest = Pinned
    /\ Ends(c) /\ staged' = Nothing
    /\ UNCHANGED <<feed, shipped, state, bundles, dialogs, promptShown,
                   awaitingBootConfirmation, sentinels, screen, uiEvents>>

(* pinToShipped: back to the floor without asking. *)
CheckPinned(c) ==
    /\ Fetched(c) /\ check[c].manifest = Pinned
    /\ state' = Reverted(state)
    /\ bundles' = Pruned(state', bundles)
    /\ staged' = Nothing
    /\ IF Overridden THEN Reload(state') ELSE UNCHANGED window
    /\ Ends(c)
    /\ UNCHANGED <<feed, shipped, dialogs, promptShown, awaitingBootConfirmation,
                   sentinels, ready, uiEvents>>

(* Mutant: only a revision that is served is skipped. *)
FloorIgnored(c) == FALSE
BelowFloor(c) == check[c].manifest # Pinned /\ check[c].manifest <= shipped

(* The feed does not beat the floor: an activation that no longer counts   *)
(* is cleared.                                                             *)
CheckBelowFloor(c) ==
    /\ Fetched(c) /\ BelowFloor(c)
    /\ UNCHANGED bundles
    /\ IF Served = shipped
       THEN /\ state' = Reverted(state)
            /\ IF Overridden THEN Reload(state') ELSE UNCHANGED window
       ELSE UNCHANGED <<state, window>>
    /\ staged' = Nothing
    /\ Ends(c)
    /\ UNCHANGED <<feed, shipped, dialogs, promptShown, awaitingBootConfirmation,
                   sentinels, ready, uiEvents>>

ShouldInstall(r) == r \notin state.quarantined /\ r # Served

CheckInstalls(c) ==
    /\ Fetched(c) /\ ~BelowFloor(c) /\ check[c].manifest # Pinned
    /\ check' = [check EXCEPT ![c] =
                   IF ShouldInstall(@.manifest) THEN [@ EXCEPT !.pc = "installing"] ELSE Idle]
    /\ UNCHANGED <<feed, shipped, state, bundles, dialogs, promptShown, staged,
                   awaitingBootConfirmation, sentinels, screen, uiEvents>>

(* installBundle renames its staging directory over the bundle's.  When    *)
(* the other check is unpacking into the same staging directory, what is   *)
(* in it is unknown.                                                       *)
Shared(c) == \E o \in Checkers \ {c} : check[o] = check[c]

Installed(c, how) ==
    /\ check[c].pc = "installing"
    /\ how = "damaged" => Shared(c)
    /\ bundles' = [bundles EXCEPT ![check[c].manifest] = how]
    /\ staged' = check[c].manifest
    /\ promptShown' = TRUE
    /\ IF promptShown THEN Ends(c) /\ UNCHANGED dialogs
       ELSE IF c = "timer"
       THEN dialogs' = Min({dialogs + 1, MaxDialogs}) /\ Ends(c)
       ELSE check' = [check EXCEPT ![c].pc = "asking"] /\ UNCHANGED dialogs
    /\ UNCHANGED <<feed, shipped, state, awaitingBootConfirmation, sentinels, screen, uiEvents>>

-----------------------------------------------------------------------------
(* Activation *)

(* applyStaged *)
ApplyStaged ==
    IF staged = Nothing
    THEN UNCHANGED <<state, staged, promptShown, awaitingBootConfirmation, sentinels, window>>
    ELSE /\ Len(sentinels) < MaxSentinels
         /\ state' = Activated(staged)
         /\ staged' = Nothing /\ promptShown' = FALSE
         /\ awaitingBootConfirmation' = TRUE
         /\ sentinels' = Append(sentinels, staged)
         /\ Reload(state')

DialogCloses(c) ==
    \/ c = "timer" /\ dialogs > 0 /\ dialogs' = dialogs - 1 /\ UNCHANGED check
    \/ c = "user" /\ check[c].pc = "asking" /\ Ends(c) /\ UNCHANGED dialogs

(* "Reload Now" or "Later" *)
ReloadNow(c) ==
    /\ DialogCloses(c)
    /\ UNCHANGED bundles
    /\ ApplyStaged
    /\ UNCHANGED <<feed, shipped, ready, uiEvents>>

Later(c) ==
    /\ DialogCloses(c)
    /\ promptShown' = FALSE
    /\ UNCHANGED <<feed, shipped, state, bundles, staged, awaitingBootConfirmation,
                   sentinels, screen, uiEvents>>

(* agendex:ui-update:apply, from a page that rendered. *)
PageApplies ==
    /\ window.stage = "rendered" /\ staged # Nothing
    /\ UNCHANGED bundles
    /\ ApplyStaged
    /\ UNCHANGED <<feed, shipped, check, dialogs, ready, uiEvents>>

(* Mutant: the sentinel of a bundle that is awaited only logs. *)
SentinelLogs ==
    /\ sentinels # <<>>
    /\ sentinels' = Tail(sentinels)
    /\ UNCHANGED <<feed, shipped, state, bundles, check, dialogs, promptShown, staged,
                   awaitingBootConfirmation, screen, uiEvents>>

(* Twenty seconds after an activation. *)
SentinelFires ==
    /\ sentinels # <<>>
    /\ sentinels' = Tail(sentinels)
    /\ UNCHANGED bundles
    /\ IF awaitingBootConfirmation
       THEN state' = Quarantined(Head(sentinels)) /\ Reload(state')
       ELSE UNCHANGED <<state, window>>
    /\ awaitingBootConfirmation' = FALSE
    /\ UNCHANGED <<feed, shipped, check, dialogs, promptShown, staged, ready, uiEvents>>

(* notifyRendererReady *)
ReadyArrives ==
    /\ ready
    /\ ready' = FALSE
    /\ awaitingBootConfirmation' = FALSE
    /\ state' = [state EXCEPT !.pendingVerify = FALSE]
    /\ UNCHANGED <<feed, shipped, bundles, check, dialogs, promptShown, staged, sentinels,
                   window, uiEvents>>

-----------------------------------------------------------------------------
(* The window *)

Renders(r) == IF r = shipped THEN TRUE ELSE r \notin Broken /\ bundles[r] # "damaged"

PageRenders ==
    /\ window.stage = "loading" /\ Renders(window.page)
    /\ window' = [window EXCEPT !.stage = "rendered"]
    /\ ready' = TRUE
    /\ UNCHANGED <<feed, shipped, state, bundles, updater, uiEvents>>

(* Mutant: a bundle is dropped and the window keeps showing it. *)
DropQuietly ==
    IF awaitingBootConfirmation /\ Overridden
    THEN /\ state' = Quarantined(state.revision)
         /\ awaitingBootConfirmation' = FALSE
         /\ window' = [window EXCEPT !.stage = "failed"]
    ELSE /\ window' = [window EXCEPT !.stage = "failed"]
         /\ UNCHANGED <<state, awaitingBootConfirmation>>

(* notifyLoadFailure, for the bundle that is awaited *)
NotifyLoadFailure ==
    IF awaitingBootConfirmation /\ Overridden
    THEN /\ state' = Quarantined(state.revision)
         /\ awaitingBootConfirmation' = FALSE
         /\ Reload(state')
    ELSE /\ window' = [window EXCEPT !.stage = "failed"]
         /\ UNCHANGED <<state, awaitingBootConfirmation>>

(* did-fail-load or render-process-gone: the bundle's fault, or an event.  *)
LoadFails ==
    /\ window.stage = "loading" \/ window.stage = "rendered"
    /\ IF window.stage = "loading" /\ ~Renders(window.page) THEN UNCHANGED uiEvents ELSE UiEvent
    /\ UNCHANGED bundles
    /\ NotifyLoadFailure
    /\ UNCHANGED <<feed, shipped, check, dialogs, promptShown, staged, sentinels, ready>>

(* The user reloads the page, closes the window and opens it again. *)
PageReloads ==
    /\ window # NoWindow /\ UiEvent
    /\ window' = [page |-> Served, stage |-> "loading"]
    /\ UNCHANGED <<feed, shipped, state, bundles, updater, ready>>

WindowCloses ==
    /\ window # NoWindow /\ UiEvent
    /\ window' = NoWindow
    /\ UNCHANGED <<feed, shipped, state, bundles, updater, ready>>

WindowOpens ==
    /\ window = NoWindow
    /\ window' = [page |-> Served, stage |-> "loading"]
    /\ UNCHANGED <<feed, shipped, state, bundles, updater, ready, uiEvents>>

-----------------------------------------------------------------------------
(* Outside the app *)

Publish(m) ==
    /\ m # feed /\ UiEvent
    /\ feed' = m
    /\ UNCHANGED <<shipped, state, bundles, updater, screen>>

(* The app ends and starts, maybe as a new version: reconcilePendingVerify *)
(* and prune run before anything is served.                                *)
Restart(floor) ==
    /\ floor >= shipped /\ UiEvent
    /\ shipped' = floor
    /\ state' = IF state.pendingVerify /\ Overridden THEN Quarantined(state.revision) ELSE state
    /\ bundles' = Pruned(state', bundles)
    /\ check' = [c \in Checkers |-> Idle]
    /\ dialogs' = 0 /\ promptShown' = FALSE /\ staged' = Nothing
    /\ awaitingBootConfirmation' = FALSE /\ sentinels' = <<>>
    /\ window' = [page |-> ServedOf(state', bundles', floor), stage |-> "loading"]
    /\ ready' = FALSE
    /\ UNCHANGED feed

-----------------------------------------------------------------------------
Check(c) ==
    \/ CheckFails(c) \/ CheckPinned(c) \/ CheckBelowFloor(c) \/ CheckInstalls(c)
    \/ \E how \in {"whole", "damaged"} : Installed(c, how)

UiNext ==
    \/ \E c \in Checkers : CheckStarts(c) \/ Check(c) \/ ReloadNow(c) \/ Later(c)
    \/ PageApplies \/ SentinelFires \/ ReadyArrives
    \/ PageRenders \/ LoadFails \/ PageReloads \/ WindowCloses \/ WindowOpens
    \/ \E m \in Revisions \cup {Pinned} : Publish(m)
    \/ \E floor \in Floors : Restart(floor)

UiSpec == UiInit /\ [][UiNext]_uiVars

(* The hourly timer, the sentinels' timers and the delivery of messages;   *)
(* calls end.  Nothing is assumed of the user.                             *)
UiFairSpec ==
    /\ UiSpec
    /\ WF_uiVars(CheckStarts("timer"))
    /\ \A c \in Checkers : WF_uiVars(Check(c))
    /\ WF_uiVars(SentinelFires) /\ WF_uiVars(ReadyArrives) /\ WF_uiVars(PageRenders)

-----------------------------------------------------------------------------
(* Properties *)

UiTypeOK ==
    /\ state.revision \in Revisions \cup {Nothing}
    /\ state.pendingVerify \in BOOLEAN /\ state.quarantined \subseteq Revisions
    /\ bundles \in [Revisions -> {"none", "whole", "damaged"}]
    /\ \A c \in Checkers : check[c].pc \in {"idle", "fetched", "installing", "asking"}
    /\ staged \in Revisions \cup {Nothing} /\ promptShown \in BOOLEAN
    /\ sentinels \in Seq(Revisions)
    /\ window.stage \in {"none", "loading", "rendered", "failed"}

(* While the app runs, a bundle in doubt is watched: it is awaited and a   *)
(* sentinel is set (ui-updater.ts 228-250), however checks, reverts and    *)
(* earlier activations interleave.                                         *)
InDoubtIsWatched ==
    /\ UiTypeOK
    /\ state.pendingVerify => awaitingBootConfirmation
    /\ awaitingBootConfirmation => sentinels # <<>>

(* The window has loaded what the store resolves to: every decision that   *)
(* changes it, to activate, to pin, to drop, reloads the window.           *)
WindowIsCurrent == window # NoWindow => window.page = Served

(* A bundle in doubt is confirmed or dropped. *)
DoubtEnds == state.pendingVerify ~> ~state.pendingVerify

(* Once the feed stays pinned, the shipped UI comes back for good: no      *)
(* check that began earlier, and no dialog still open, brings a bundle     *)
(* back for longer than until the next check.                              *)
PinHolds == <>[](feed = Pinned) => <>[](Served = shipped)

(* Once nothing is published any more the store comes to rest: no bundle   *)
(* is installed, applied and dropped again on every check (ui-updater.ts   *)
(* 163-168).                                                               *)
ComesToRest == <>[][UNCHANGED state]_uiVars

(* At any time: a bundle in doubt is watched and the window is current.    *)
UiIsSound == InDoubtIsWatched /\ WindowIsCurrent

(* In the end: doubt ends, and so do changes of the store.                 *)
UiSettles == DoubtEnds /\ ComesToRest
=============================================================================
