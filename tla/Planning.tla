------------------------------ MODULE Planning ------------------------------
(***************************************************************************)
(* How a skill's models are chosen, and how long the choice stands: the    *)
(* snapshot of routes (_build_orchestration_plan, http_api.py), the        *)
(* resolver (capabilities/resolver.py), plans and assisted drafts          *)
(* (orchestration.py), the catalog's readiness (_capability_declarations,  *)
(* _skill_summaries) and the start of a run with the id of the plan its    *)
(* user has reviewed (start_skill).                                        *)
(*                                                                         *)
(* The world changes between any two steps: model files, profiles,         *)
(* verifications, preferences and free memory.  Routes of text models have *)
(* no memory estimate; image models have one and one GPU's memory, or      *)
(* neither is known.                                                       *)
(***************************************************************************)
EXTENDS Integers, FiniteSets, Sequences

CONSTANTS
  None,
  Model,        \* text models a backend can load, as numbers
  ImageModel,   \* models of the local image runtime, as numbers
  Hash,         \* <<model, profile>> -> the number its route's id is sorted by
  Need,         \* the memory an image model is estimated to need, or None
  Memory,       \* the free memory of the GPU: amounts, and None
  Headroom,     \* resource_headroom_percent
  Installed,    \* the installed skills: name -> set of nodes
  Requests,     \* the requests users make: [skill, mode, model, profile, pins]
  MaxChanges    \* bound: changes of the world

ASSUME HeadroomAssumption == Headroom \in 0..100 /\ MaxChanges \in Nat
ASSUME ModelAssumption ==
  /\ Model \cup ImageModel \subseteq Nat /\ IsFiniteSet(Model) /\ IsFiniteSet(ImageModel)
  /\ None \notin Nat \cup {"auto", "manual"}
ASSUME MemoryAssumption ==
  /\ Need \in [ImageModel -> Nat \cup {None}]
  /\ Memory \subseteq Nat \cup {None} /\ \E f \in Memory : f # None

Profile == 1    \* the one profile a user may save; 0 is a route without one
Text == "text"
Image == "image"
Capability == {"text.chat", "text.generate", "image.generate"}
IsText(c) == c \in {"text.chat", "text.generate"}

ASSUME RequestAssumption ==
  Requests \subseteq [skill : DOMAIN Installed, mode : {None, "auto", "manual"}, model : Model \cup {None},
                    profile : {None, Profile},
                    pins : {None} \cup [cap : Capability, model : Model \cup ImageModel]]

VARIABLES
  world,      \* what a snapshot sees, and the preferences
  changes,    \* changes of the world so far
  draft,      \* an assisted draft that is being generated, or None
  reviewed,   \* the plan the user sees, or None
  start,      \* start_skill between its two looks at the world, or None
  run         \* the run that was created, or None
planning == <<world, changes, draft, reviewed, start, run>>

-----------------------------------------------------------------------------
(* Routes.                                                                 *)

Accepts(c) == {Text}
Produces(c) == IF IsText(c) THEN {Text} ELSE {Image}

Route(c, m, p, status, need, free, load) ==
  [cap |-> c, model |-> m, profile |-> p, status |-> status, need |-> need, free |-> free, load |-> load]

\* The profiles of a model whose purpose allows the capability; none is one.
Profiles(w, c, m) ==
  {0} \union {p \in {Profile} : w.profile # None /\ w.profile.model = m /\ c \in w.profile.purpose}

\* A text route for every model and every profile of it; an image route for
\* every model of the image runtime.
TextRoute(w, c, m, p) ==
  Route(c, m, p, IF <<c, m>> \in w.verified THEN "verified" ELSE "supported", None, None,
        IF p = 0 THEN 0 ELSE w.profile.load)
ImageRoute(w, m) == Route("image.generate", m, 0, "supported", Need[m], w.free, 0)
Variants(w, c, m) == {TextRoute(w, c, m, p) : p \in Profiles(w, c, m)}
TextRoutes(w) == UNION {Variants(w, c, m) : c \in {d \in Capability : IsText(d)}, m \in w.models}
Snapshot(w) == TextRoutes(w) \union {ImageRoute(w, m) : m \in w.images}

\* The id of a route hashes its model and profile; resolve_route refuses
\* candidates that share one.
IdOf(r) == Hash[<<r.model, r.profile>>]
Hashed  == (Model \cup ImageModel) \X {0, Profile}
ASSUME IdAssumption == Hash \in [Hashed -> Nat] /\ \A x, y \in Hashed : Hash[x] = Hash[y] => x = y

-----------------------------------------------------------------------------
(* The resolver.                                                           *)

\* Mutant: headroom is rounded down.
RoundedDown(need) == (need * (100 + Headroom)) \div 100
\* "Flooring can approve a route that is fractionally below the margin."
WithHeadroom(need) == (need * (100 + Headroom) + 99) \div 100

\* The reasons to reject a route (resolve_route and the filter of build_plan).
Reasons(req, r) ==
  {why \in {"failed", "profile", "input", "output", "unknown", "resources", "model"} :
     \/ why = "failed" /\ r.status = "failed"
     \/ why = "profile" /\ req.profile # None /\ r.profile # req.profile
     \/ why = "input" /\ ~(req.ins \subseteq Accepts(r.cap))
     \/ why = "output" /\ ~(req.outs \subseteq Produces(r.cap))
     \/ why = "unknown" /\ (r.need = None \/ r.free = None) /\ req.policy = "reject"
     \/ why = "resources" /\ r.need # None /\ r.free # None /\ WithHeadroom(r.need) > r.free
     \/ why = "model" /\ req.mode = "manual" /\ r.model # req.model}

RankOf(req, r) ==
  << IF req.verified /\ r.status = "verified" THEN 0 ELSE 1,
     IF req.prefer # None /\ r.model = req.prefer THEN 0 ELSE 1,
     IF req.preferProfile # None /\ r.profile = req.preferProfile THEN 0 ELSE 1,
     IdOf(r) >>
Before(a, b) == \E k \in DOMAIN a : a[k] < b[k] /\ \A j \in 1..(k - 1) : a[j] = b[j]

Eligible(req, routes) == {r \in routes : r.cap = req.cap /\ Reasons(req, r) = {}}
Better(req, r, routes) ==
  {e \in Eligible(req, routes) : Before(RankOf(req, e), RankOf(req, r))}

\* resolve_route: the eligible routes, the best first: k - 1 are better than
\* the k-th.
Resolve(req, routes) ==
  [k \in 1..Cardinality(Eligible(req, routes)) |->
     CHOOSE r \in Eligible(req, routes) : Cardinality(Better(req, r, routes)) = k - 1]

-----------------------------------------------------------------------------
(* Plans.                                                                  *)

\* Every node that needs a route, those of nested skills included, with the
\* path that names it (_route_nodes).
RouteNodes[s \in DOMAIN Installed] ==
  {[n EXCEPT !.id = <<n.id>>] : n \in {x \in Installed[s] : x.cap # None}}
    \union UNION {{[m EXCEPT !.id = <<n.id>> \o @] : m \in RouteNodes[n.skill]} :
                    n \in {x \in Installed[s] : x.skill # None}}

\* Skills are installed when their graph has no cycle and no name twice.
ASSUME NodeAssumption ==
  \A s \in DOMAIN Installed :
    /\ IsFiniteSet(RouteNodes[s])
    /\ \A n \in RouteNodes[s] : n.cap \in Capability
    /\ \A n, m \in RouteNodes[s] : n.id = m.id => n = m

First(a, b) == IF a # None THEN a ELSE b

\* Mutant: a node's own pin is only a preference.
PinsOfRequest(q, n, w) ==
  LET explicit == IF q.pins # None /\ q.pins.cap = n.cap THEN q.pins.model ELSE None
  IN First(IF IsText(n.cap) THEN q.model ELSE None, explicit)
\* The pin of a node: what the request pins for chat or for the capability
\* wins over what the node names.  In manual mode a saved choice is a pin.
PinOf(q, n, w) ==
  LET explicit == IF q.pins # None /\ q.pins.cap = n.cap THEN q.pins.model ELSE None
      pin == First(IF IsText(n.cap) THEN q.model ELSE None, First(explicit, n.model))
      mode == First(q.mode, w.mode)
  IN IF pin = None /\ mode = "manual" THEN w.saved[n.cap] ELSE pin

\* The ResolutionRequest of a node.
RequestOf(q, n, w) ==
  LET pin == PinOf(q, n, w)
      profile == IF IsText(n.cap) THEN q.profile ELSE None
  IN [cap |-> n.cap, ins |-> n.ins, outs |-> n.outs, policy |-> w.policy, verified |-> w.preferVerified,
      mode |-> IF pin # None THEN "manual" ELSE First(q.mode, w.mode),
      model |-> pin, profile |-> profile,
      prefer |-> First(pin, w.saved[n.cap]), preferProfile |-> profile]

Preferences(w) ==
  [mode |-> w.mode, policy |-> w.policy, verified |-> w.preferVerified, saved |-> w.saved]

\* build_plan with a snapshot of routes and the preferences of w: the routes
\* it selects, and everything its id is a digest of; None if a node has no
\* route.  The settings of a profile (load) are in a route, not in the digest.
Plan(q, routes, w) ==
  LET nodes == RouteNodes[q.skill]
      at(n) == Resolve(RequestOf(q, n, w), routes)
      summary(r) == [r EXCEPT !.load = 0]
      why(n) == {<<summary(r), Reasons(RequestOf(q, n, w), r)>> : r \in {x \in routes : x.cap = n.cap}}
      declared(n) == \E r \in routes : r.cap = n.cap
  IN IF \A n \in nodes : n.ins # {} /\ declared(n) /\ RequestOf(q, n, w).mode \in {"auto", "manual"}
                         /\ (RequestOf(q, n, w).mode = "manual" => PinOf(q, n, w) # None)
                         /\ at(n) # <<>>
     THEN [routes |-> {<<n.id, at(n)[1]>> : n \in nodes},
           id |-> [skill |-> q.skill, mode |-> First(q.mode, w.mode), preferences |-> Preferences(w),
                   routes |-> {<<n.id, [k \in DOMAIN at(n) |-> summary(at(n)[k])], why(n)>> : n \in nodes}]]
     ELSE None

Summaries(plan) == {<<x[1], [x[2] EXCEPT !.load = 0]>> : x \in plan.routes}

-----------------------------------------------------------------------------
(* The catalog.                                                            *)

\* The models _capability_declarations lists a route for, profiles and
\* verifications left aside; a capability without any is unavailable.
Listed(c, w) == IF IsText(c) THEN w.models ELSE w.images
Supported(c, w) == Listed(c, w) # {}

\* The memory of a listed route is measured, and too small.
TooSmall(c, m, w) ==
  /\ ~IsText(c) /\ Need[m] # None /\ w.free # None
  /\ (Need[m] * (100 + Headroom) + 99) \div 100 > w.free

\* _skill_summaries: a skill is ready if each of its capabilities is supported,
\* unless every route of one of them is measured and too small.
Ready(s, w) ==
  \A c \in {n.cap : n \in RouteNodes[s]} :
    Supported(c, w) /\ \E m \in Listed(c, w) : ~TooSmall(c, m, w)

-----------------------------------------------------------------------------
(* Changes of the world.                                                   *)

Moved(v) == IF v = None THEN None ELSE [v EXCEPT !.moved = TRUE]

Change(w) ==
  /\ changes < MaxChanges /\ w # world
  /\ world' = w /\ changes' = changes + 1
  /\ reviewed' = Moved(reviewed) /\ start' = Moved(start) /\ draft' = Moved(draft)
  /\ UNCHANGED run

\* A model file comes or goes, or a runtime does.
CatalogChanges ==
  \/ \E m \in Model : Change([world EXCEPT !.models = IF m \in @ THEN @ \ {m} ELSE @ \union {m}])
  \/ \E m \in ImageModel : Change([world EXCEPT !.images = IF m \in @ THEN @ \ {m} ELSE @ \union {m}])

\* A profile is saved for a model, changed or deleted.
ProfileChanges ==
  \/ world.profile = None /\ \E m \in Model, purpose \in {{"text.chat"}, {"text.chat", "text.generate"}} :
       Change([world EXCEPT !.profile = [model |-> m, purpose |-> purpose, load |-> 1]])
  \/ world.profile # None /\ Change([world EXCEPT !.profile.load = 3 - @])
  \/ world.profile # None /\ Change([world EXCEPT !.profile = None])

\* A verified run of a model is recorded in its manifest.
Verify == \E m \in Model : Change([world EXCEPT !.verified = @ \union {<<"text.chat", m>>}])

\* PATCH of the capability preferences.
PreferencesChange ==
  \/ \E mode \in {"auto", "manual"} : Change([world EXCEPT !.mode = mode])
  \/ \E policy \in {"allow", "reject"} : Change([world EXCEPT !.policy = policy])
  \/ \E m \in Model \union {None} : Change([world EXCEPT !.saved["text.chat"] = m])

MemoryChanges == \E free \in Memory : Change([world EXCEPT !.free = free])

-----------------------------------------------------------------------------
(* What users do.                                                          *)

\* _resolve_skill_request: a plan from a snapshot of now.
Fresh(q) == Plan(q, Snapshot(world), world)

Review(q, plan, asked, moved) ==
  [request |-> q, plan |-> plan, asked |-> asked, moved |-> moved]

\* plan_skill: nothing is loaded and nothing changes but what the user sees.
Preview(q) ==
  LET plan == Fresh(q)
  IN /\ draft = None /\ start = None
     /\ reviewed' = IF plan = None THEN None ELSE Review(q, plan, q, FALSE)
     /\ UNCHANGED <<world, changes, draft, start, run>>

\* draft_skill takes its snapshot, makes sure a plan can be built and asks the
\* loaded model for a draft.
DraftBegin(q) ==
  /\ draft = None /\ start = None
  /\ Fresh(q) # None
  /\ draft' = [request |-> q, routes |-> Snapshot(world), moved |-> FALSE]
  /\ reviewed' = None
  /\ UNCHANGED <<world, changes, start, run>>

\* The components of a skill, as a draft must name them (draft_components).
Components(s) == {<<n.id, n.cap>> : n \in RouteNodes[s]}

\* resolve_assisted_draft: exactly the components of the installed skill.
Describes(s, components) == components = Components(s)

\* The answer of the model, components of this skill, too few, or others.  The
\* plan is built from the snapshot and the preferences of now, without the
\* model and the profile the request pins for chat (draft_skill).
DraftEnd ==
  /\ draft # None
  /\ \E s \in DOMAIN Installed : \E components \in SUBSET Components(s) :
       LET q == draft.request
           asked == [q EXCEPT !.model = None, !.profile = None]
           plan == Plan(asked, draft.routes, world)
       IN reviewed' = IF Describes(q.skill, components) /\ plan # None
                      THEN Review(q, plan, asked, draft.moved) ELSE None
  /\ draft' = None
  /\ UNCHANGED <<world, changes, start, run>>

\* Mutant: only the skill and the mode are compared.
SameSkill(plan, review) == plan.id.skill = review.plan.id.skill /\ plan.id.mode = review.plan.id.mode
\* The id the user has reviewed is the id of the plan that would run.
SamePlan(plan, review) == plan.id = review.plan.id

Started(plan, review, refused, moved) ==
  [plan |-> plan, review |-> review, refused |-> refused, moved |-> moved]

\* start_skill resolves the request again and compares; with no plan there is
\* nothing to compare (APIError), with another one it is a conflict.
StartResolve ==
  LET plan == Fresh(reviewed.request)
  IN /\ reviewed # None /\ start = None /\ draft = None /\ run = None
     /\ \/ plan = None /\ start' = Started(None, reviewed, "unresolved", FALSE)
        \/ plan # None /\ ~SamePlan(plan, reviewed) /\ start' = Started(None, reviewed, "changed", FALSE)
        \/ plan # None /\ SamePlan(plan, reviewed) /\ start' = Started(plan, reviewed, "", FALSE)
     /\ reviewed' = None
     /\ UNCHANGED <<world, changes, draft, run>>

\* It asks the catalog, which looks at the world again, and creates the run.
StartReady ==
  /\ start # None /\ start.refused = ""
  /\ IF Ready(start.review.request.skill, world)
     THEN run' = [plan |-> start.plan, review |-> start.review, state |-> "queued"]
     ELSE UNCHANGED run
  /\ start' = IF Ready(start.review.request.skill, world) THEN None
              ELSE [start EXCEPT !.refused = "not ready"]
  /\ UNCHANGED <<world, changes, draft, reviewed>>

\* The user reads why the run was refused.
Acknowledge ==
  /\ start # None /\ start.refused # ""
  /\ start' = None
  /\ UNCHANGED <<world, changes, draft, reviewed, run>>

\* OrchestrationService.execute.  The plan brings its own snapshot of routes,
\* so the comparison with the routes that are known never fails; a model whose
\* file has gone fails to load.
Execute ==
  /\ run # None /\ run.state = "queued"
  /\ run' = IF \A x \in run.plan.routes : x[2].model \in world.models \union world.images
            THEN [run EXCEPT !.state = "loaded"] ELSE None
  /\ UNCHANGED <<world, changes, draft, reviewed, start>>

Finish ==
  /\ run # None /\ run.state = "loaded"
  /\ run' = None
  /\ UNCHANGED <<world, changes, draft, reviewed, start>>

PlanningInit ==
  /\ world = [models |-> Model, images |-> ImageModel, verified |-> {}, profile |-> None, mode |-> "auto",
              policy |-> "allow", preferVerified |-> TRUE, saved |-> [c \in Capability |-> None],
              free |-> CHOOSE f \in Memory : f # None]
  /\ changes = 0 /\ draft = None /\ reviewed = None /\ start = None /\ run = None

PlanningNext ==
  \/ CatalogChanges \/ ProfileChanges \/ Verify \/ PreferencesChange \/ MemoryChanges
  \/ \E q \in Requests : Preview(q) \/ DraftBegin(q)
  \/ DraftEnd \/ StartResolve \/ StartReady \/ Acknowledge \/ Execute \/ Finish

PlanningSpec == PlanningInit /\ [][PlanningNext]_planning

-----------------------------------------------------------------------------
(* Properties.                                                             *)

\* A plan routes every node of its skill, those of nested skills included,
\* once.
IsPlan(plan, s) ==
  /\ {x[1] : x \in plan.routes} = {n.id : n \in RouteNodes[s]}
  /\ Cardinality(plan.routes) = Cardinality(RouteNodes[s])

\* The state keeps its shape, and plans route every node once.
PlanningTypeOK ==
  /\ world.models \subseteq Model /\ world.images \subseteq ImageModel
  /\ world.profile # None => world.profile.model \in Model /\ world.profile.load \in {1, 2}
  /\ world.mode \in {"auto", "manual"} /\ world.policy \in {"allow", "reject"} /\ world.free \in Memory
  /\ changes \in 0..MaxChanges
  /\ draft # None => draft.request \in Requests /\ start = None /\ reviewed = None
  /\ reviewed # None => reviewed.request \in Requests /\ IsPlan(reviewed.plan, reviewed.request.skill)
  /\ start # None => start.refused \in {"", "unresolved", "changed", "not ready"}
  /\ run # None => run.state \in {"queued", "loaded"} /\ IsPlan(run.plan, run.review.request.skill)

\* The models a request pins for a capability, the strongest first.
PinsFor(q, n) ==
  << IF IsText(n.cap) THEN q.model ELSE None,
     IF q.pins # None /\ q.pins.cap = n.cap THEN q.pins.model ELSE None,
     n.model >>

KeepsPins(plan, q) ==
  \A x \in plan.routes : \A n \in RouteNodes[q.skill] : x[1] = n.id =>
    LET pins == PinsFor(q, n)
        Strongest(k) == pins[k] # None /\ \A j \in 1..(k - 1) : pins[j] = None
    IN /\ \A k \in DOMAIN pins : Strongest(k) => x[2].model = pins[k]
       /\ (\A k \in DOMAIN pins : pins[k] = None) /\ plan.id.mode = "manual"
            => x[2].model = plan.id.preferences.saved[n.cap]
       /\ IsText(n.cap) /\ q.profile # None => x[2].profile = q.profile

\* With the safety margin a model fits the memory that was free.
FitsMemory(plan) ==
  \A x \in plan.routes :
    x[2].need # None /\ x[2].free # None => x[2].need * (100 + Headroom) <= 100 * x[2].free

\* "A manual pin is a hard constraint" (resolver.py): no plan that is shown or
\* run puts a node on another model than the strongest of its pins, on another
\* profile, or on a model that does not fit with its margin; a run keeps the
\* pins of its user's request even when what the user saw was a draft, which
\* is made without them.
PinsAndMarginsHold ==
  /\ reviewed # None => KeepsPins(reviewed.plan, reviewed.asked) /\ FitsMemory(reviewed.plan)
  /\ run # None => KeepsPins(run.plan, run.review.request) /\ FitsMemory(run.plan)

\* A plan is whole, and its user's.
PlansAreSound == PlanningTypeOK /\ PinsAndMarginsHold

\* "The plan changed after review" (start_skill): whatever changed in between,
\* a run uses the very routes, of the very evidence, that its user reviewed;
\* and planning is a function of the world: a start is refused for a change
\* only when something did change, or when the user saw a draft of a request
\* with pins, which a draft ignores.
ReviewsDecide ==
  /\ run # None => Summaries(run.plan) = Summaries(run.review.plan)
  /\ start # None /\ start.refused \in {"changed", "unresolved"} =>
       start.review.moved \/ start.review.asked # start.review.request
  /\ start # None /\ start.refused = "not ready" => start.moved

Plain(s) == [skill |-> s, mode |-> None, model |-> None, profile |-> None, pins |-> None]
PinsNothing(s) == \A n \in RouteNodes[s] : n.model = None

\* The catalog (_skill_summaries) and the planner (build_plan) look at the same
\* world through different code: what can be planned the catalog calls ready,
\* and what it calls ready can be planned when nothing is pinned, the mode is
\* auto and models of unknown size are allowed.
CatalogAndPlannerAgree ==
  \A s \in DOMAIN Installed :
    LET planned == Plan(Plain(s), Snapshot(world), world) # None
    IN /\ planned => Ready(s, world)
       /\ Ready(s, world) /\ world.mode = "auto" /\ world.policy = "allow" /\ PinsNothing(s) => planned
=============================================================================
