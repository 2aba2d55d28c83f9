------------------------------ MODULE Workspaces ------------------------------
(***************************************************************************)
(* Workspaces of the browser client and of the service:                    *)
(* apps/terminal-web/components/shell.tsx and terminal_api.py.             *)
(*                                                                         *)
(* One page.  Its list of workspaces is loaded once; a change of the page, *)
(* of the list or of the workspace shown restarts a timer of 700 ms, which *)
(* posts what was shown when it was started.  Posts may overtake another.  *)
(* A configuration is known by the number of the edit that made it; names  *)
(* are left out.                                                           *)
(***************************************************************************)
EXTENDS Null, Naturals, FiniteSetsExt

CONSTANTS
    MaxSpaces,  \* bound on the workspaces created
    MaxEdits,   \* bound on the edits
    MaxSaves    \* bound on the posts of the timer

VARIABLES
    saved,    \* workspace_states, None where there is no workspace
    born,     \* workspaces created so far, in the order of created_at
    page,     \* the workspace and the configuration shown, None while the page is closed
    list,     \* the workspaces known to the page
    timer,    \* what the timer is going to post, or None
    saves,    \* posts on their way
    saveCount,
    acting,   \* the workspaceAction under way, or None
    warning,  \* saveError
    local,    \* localStorage
    edits,
    made      \* which configurations were made in which workspace

workspaceVars == <<saved, born, page, list, timer, saves, saveCount, acting, warning, local,
                   edits, made>>

Spaces == 1 .. MaxSpaces
Configs == 0 .. MaxEdits
Layout == [space: Spaces, config: Configs]
Lists == [Spaces -> Configs \cup {None}]
WorkspaceAction == [action: {"create", "duplicate", "rename", "delete"},
                    phase: {"sent", "served", "refused"},
                    space: Spaces, config: Configs, list: Lists, new: 0 .. MaxSpaces]

ASSUME WorkspaceAssumption ==
    /\ MaxSpaces \in Nat \ {0, 1} /\ MaxEdits \in Nat /\ MaxSaves \in Nat
    /\ None \notin Configs /\ None \notin Layout /\ None \notin WorkspaceAction

WorkspaceTypeOK ==
    /\ saved \in Lists /\ list \in Lists
    /\ born \in Spaces
    /\ {page, timer, local} \subseteq Layout \cup {None}
    /\ saves \subseteq [space: Spaces, config: Configs, number: 1 .. MaxSaves, heard: BOOLEAN]
    /\ saveCount \in 0 .. MaxSaves
    /\ acting \in WorkspaceAction \cup {None}
    /\ warning \in BOOLEAN
    /\ edits \in Configs
    /\ made \subseteq Layout

\* Of the workspaces seeded, one or two are left.
WorkspaceInit ==
    /\ born \in {1, 2}
    /\ saved = [s \in Spaces |-> IF s <= born THEN 0 ELSE None]
    /\ page = None
    /\ list = [s \in Spaces |-> None]
    /\ timer = None
    /\ saves = {} /\ saveCount = 0
    /\ acting = None
    /\ warning = FALSE
    /\ local = None
    /\ edits = 0
    /\ made = [space: 1 .. born, config: {0}]

spaceRows == <<saved, born>>
traffic == <<saves, saveCount>>
Known(spaces) == {s \in Spaces : spaces[s] # None}
LayoutOf(s, c) == [space |-> s, config |-> c]

\* What is shown goes to localStorage, and the timer starts anew.
Shows(layout) ==
    /\ page' = layout
    /\ local' = layout
    /\ timer' = layout

-----------------------------------------------------------------------------
\* The page loads the list, and what localStorage has of the workspace last shown.
OpenPage ==
    /\ page = None
    /\ list' = saved
    /\ LET s == IF local # None /\ local.space \in Known(saved)
                THEN local.space ELSE Min(Known(saved))
       IN Shows(IF local # None /\ local.space = s THEN local ELSE LayoutOf(s, saved[s]))
    /\ UNCHANGED <<acting, warning, edits, made>> /\ UNCHANGED spaceRows /\ UNCHANGED traffic

EditLayout ==
    /\ page # None
    /\ edits < MaxEdits
    /\ edits' = edits + 1
    /\ Shows([page EXCEPT !.config = edits + 1])
    /\ made' = made \cup {LayoutOf(page.space, edits + 1)}
    /\ UNCHANGED <<list, acting, warning>> /\ UNCHANGED spaceRows /\ UNCHANGED traffic

TimerFires ==
    /\ timer # None
    /\ saveCount < MaxSaves
    /\ timer' = None
    /\ IF timer.space \in Known(list)
       THEN /\ saveCount' = saveCount + 1
            /\ saves' = saves \cup {[space |-> timer.space, config |-> timer.config,
                                     number |-> saveCount + 1, heard |-> TRUE]}
       ELSE UNCHANGED traffic
    /\ UNCHANGED <<page, list, acting, warning, local, edits, made>> /\ UNCHANGED spaceRows

\* save_workspace.  Any post may be served next; 404 for a workspace that is gone.  A page
\* hears of the posts it sent itself.
Hears(post, failed) == warning' = IF post.heard THEN failed ELSE warning
SaveServed(post) ==
    /\ saves' = saves \ {post}
    /\ IF post.space \in Known(saved)
       THEN saved' = [saved EXCEPT ![post.space] = post.config] /\ Hears(post, FALSE)
       ELSE Hears(post, TRUE) /\ UNCHANGED saved
    /\ UNCHANGED <<born, page, list, timer, saveCount, acting, local, edits, made>>

\* The post or its answer is lost.
SaveLost(post) ==
    /\ saves' = saves \ {post}
    /\ saved' \in {saved, IF post.space \in Known(saved)
                          THEN [saved EXCEPT ![post.space] = post.config] ELSE saved}
    /\ Hears(post, TRUE)
    /\ UNCHANGED <<born, page, list, timer, saveCount, acting, local, edits, made>>

\* switchWorkspace.  Mutant: the workspace changes and the configuration does not.
SwitchedSpace(s) == LayoutOf(s, page.config)
Switched(s) == LayoutOf(s, list[s])
SwitchWorkspace(s) ==
    /\ page # None
    /\ s \in Known(list) \ {page.space}
    /\ list' = [list EXCEPT ![page.space] = page.config]
    /\ Shows(Switched(s))
    /\ UNCHANGED <<acting, warning, edits, made>> /\ UNCHANGED spaceRows /\ UNCHANGED traffic

\* workspaceAction: what it posts and what it will use afterwards is taken now.
StartAction(action) ==
    /\ page # None /\ acting = None
    /\ action \in {"create", "duplicate"} => born < MaxSpaces
    /\ acting' = [action |-> action, phase |-> "sent", space |-> page.space, list |-> list,
                  config |-> IF action = "create" THEN 0 ELSE page.config, new |-> 0]
    /\ UNCHANGED <<page, list, timer, warning, local, edits, made>>
    /\ UNCHANGED spaceRows /\ UNCHANGED traffic

\* create_workspace, save_workspace, delete_workspace ("Keep at least one workspace").
Refused == CASE acting.action = "delete" -> Cardinality(Known(saved)) <= 1
             [] acting.action = "rename" -> acting.space \notin Known(saved)
             [] OTHER -> FALSE
Serves ==
    IF Refused THEN UNCHANGED <<saved, born, made>>
    ELSE CASE acting.action = "delete" ->
                 saved' = [saved EXCEPT ![acting.space] = None] /\ UNCHANGED <<born, made>>
           [] acting.action = "rename" ->
                 /\ saved' = [saved EXCEPT ![acting.space] = acting.config]
                 /\ UNCHANGED <<born, made>>
           [] OTHER ->
                 /\ born' = born + 1
                 /\ saved' = [saved EXCEPT ![born + 1] = acting.config]
                 /\ made' = made \cup {LayoutOf(born + 1, acting.config)}

ActionServed ==
    /\ acting # None /\ acting.phase = "sent"
    /\ Serves
    /\ acting' = [acting EXCEPT !.phase = IF Refused THEN "refused" ELSE "served", !.new = born']
    /\ UNCHANGED <<page, list, timer, warning, local, edits>> /\ UNCHANGED traffic

\* The answer arrives.  After a deletion the list is the one of its start; when it had no
\* other workspace (one that a lost answer created is unknown to it), nothing can be shown.
ListAfter ==
    CASE acting.action = "delete" -> [acting.list EXCEPT ![acting.space] = None]
      [] acting.action = "rename" -> [s \in Spaces |-> IF s = acting.space /\ list[s] # None
                                                        THEN acting.config ELSE list[s]]
      [] OTHER -> [list EXCEPT ![acting.new] = acting.config]
NothingLeft == Known(ListAfter) = {}
ShownAfter ==
    CASE NothingLeft \/ acting.action = "rename" -> page
      [] ~NothingLeft /\ acting.action = "delete" ->
            LET s == Min(Known(ListAfter)) IN LayoutOf(s, ListAfter[s])
      [] OTHER -> LayoutOf(acting.new, acting.config)

ActionAnswered ==
    /\ acting # None /\ acting.phase = "served"
    /\ list' = ListAfter
    /\ Shows(ShownAfter)
    /\ acting' = None
    /\ warning' = (warning \/ NothingLeft)
    /\ UNCHANGED <<edits, made>> /\ UNCHANGED spaceRows /\ UNCHANGED traffic

\* It was refused, or the request or its answer is lost.
ActionFailed ==
    /\ acting # None
    /\ IF acting.phase = "sent" THEN Serves \/ UNCHANGED <<saved, born, made>>
       ELSE UNCHANGED <<saved, born, made>>
    /\ acting' = None
    /\ warning' = TRUE
    /\ UNCHANGED <<page, list, timer, local, edits>> /\ UNCHANGED traffic

\* The timer and the list die with the page; a request on its way may still be served.
ClosePage ==
    /\ page # None
    /\ page' = None /\ timer' = None /\ acting' = None
    /\ IF acting # None /\ acting.phase = "sent"
       THEN Serves \/ UNCHANGED <<saved, born, made>>
       ELSE UNCHANGED <<saved, born, made>>
    /\ saves' = {[post EXCEPT !.heard = FALSE] : post \in saves}
    /\ list' = [s \in Spaces |-> None] /\ warning' = FALSE
    /\ UNCHANGED <<local, edits, saveCount>>

WorkspaceNext ==
    \/ OpenPage \/ EditLayout \/ TimerFires \/ ClosePage
    \/ \E post \in saves : SaveServed(post) \/ SaveLost(post)
    \/ \E s \in Spaces : SwitchWorkspace(s)
    \/ \E action \in {"create", "duplicate", "rename", "delete"} : StartAction(action)
    \/ ActionServed \/ ActionAnswered \/ ActionFailed

WorkspaceSpec == WorkspaceInit /\ [][WorkspaceNext]_workspaceVars

-----------------------------------------------------------------------------
\* However posts, answers, switches and the timer interleave, a workspace is only ever
\* shown, cached, posted and stored with a configuration that was made in it or that it was
\* created with (shell.tsx:165-183, 292-358).
LayoutsStayHome ==
    /\ {page, timer, local} \subseteq made \cup {None}
    /\ \A s \in Known(saved) : LayoutOf(s, saved[s]) \in made
    /\ \A s \in Known(list) : LayoutOf(s, list[s]) \in made
    /\ \A post \in saves : LayoutOf(post.space, post.config) \in made

\* "Changes are debounced to the server; server failures leave a visible local-only sync
\* warning" (docs/WORKSPACES.md:8): once the timer has run and every request is answered,
\* without a warning, each workspace has its latest change.
LatestConfig(s) == Max({layout.config : layout \in {m \in made : m.space = s}})
ChangesSynced ==
    (page # None /\ timer = None /\ saves = {} /\ acting = None /\ ~warning)
        => \A s \in Known(saved) : saved[s] = LatestConfig(s)
=============================================================================
