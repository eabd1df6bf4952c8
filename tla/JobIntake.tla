------------------------------ MODULE JobIntake ------------------------------
(***************************************************************************)
(* How the daemon hears of a queued job: the webhooks it keeps on GitHub   *)
(* (pkg/github/webhook.go) through a tunnel that breaks and comes back     *)
(* under another URL (serveTunnelWithReconnect), and the polls that catch  *)
(* what no webhook delivered (CatchUpPoll, the reconcile loop, the         *)
(* fallback to polling).  In "pool" mode several daemons share the hooks.  *)
(***************************************************************************)
EXTENDS Naturals, FiniteSets

CONSTANTS
  HookRepos,      \* the repositories are 1..HookRepos, in the order of cfg.Repos
  Urls,           \* the public URLs a tunnel may be given
  PolicyRepos,    \* those the dispatch policy admits
  TunnelRetries,  \* TunnelMaxRetries
  MaxDrops,       \* a bound on broken tunnels
  MaxApiErrs,     \* a bound on failed API calls
  MaxRuns         \* a bound on runs of the daemon

ASSUME IntakeAssumption ==
  /\ {HookRepos, TunnelRetries} \subseteq Nat \ {0} /\ Urls # {} /\ PolicyRepos \subseteq 1..HookRepos
  /\ {MaxDrops, MaxApiErrs, MaxRuns} \subseteq Nat

VARIABLES
  hookMode,   \* "tunnel", "external": hooks the operator owns, "pool": those and pool-mates
  intakeAt,   \* where Run and serveTunnelWithReconnect are
  hooks,      \* workflow_job hooks on GitHub: <<repository, URL>>
  managed,    \* the provider's webhooks
  regDone,    \* the hooks the RegisterWebhooks under way has
  regNext,    \* the repository it is at
  pubUrl,     \* Tunnel.PublicURL
  hookFails,  \* consecutiveFailures
  polling,    \* the fallback's pollLoop runs
  jobRepo,    \* the repository of the job, 0 before it is queued
  jobState,   \* as GitHub sees it and whether the scheduler has heard
  mail,       \* URLs a delivery of its "queued" event is on its way to
  unclean,    \* a delete failed, or a run was killed, since the last sweep
  drops, apiErrs, runs

hookReg == <<regDone, regNext>>
hookJob == <<jobRepo, jobState, mail>>
hookCount == <<drops, runs>>
intakeVars == <<hookMode, intakeAt, hooks, managed, hookReg, pubUrl, hookFails, polling,
                hookJob, unclean, hookCount, apiErrs>>

HookSites == 1..HookRepos
Hooks == HookSites \X Urls

IntakeTypeOK ==
  /\ hookMode \in {"tunnel", "external", "pool"}
  /\ intakeAt \in {"down", "clean", "listen", "register", "serving", "lost", "relisten", "reregister", "polling"}
  /\ hooks \subseteq Hooks /\ managed \subseteq Hooks /\ regDone \subseteq Hooks
  /\ regNext \in 1..(HookRepos + 1) /\ pubUrl \in Urls
  /\ hookFails \in 0..TunnelRetries /\ polling \in BOOLEAN
  /\ jobRepo \in 0..HookRepos /\ jobState \in {"none", "queued", "heard", "gone"} /\ mail \subseteq Urls
  /\ unclean \in BOOLEAN /\ drops \in 0..MaxDrops /\ apiErrs \in 0..MaxApiErrs /\ runs \in 0..MaxRuns

IntakeInit ==
  /\ hookMode \in {"tunnel", "external", "pool"} /\ intakeAt = "down"
  /\ hooks = {} /\ managed = {} /\ regDone = {} /\ regNext = 1 /\ pubUrl = CHOOSE u \in Urls : TRUE
  /\ hookFails = 0 /\ polling = FALSE /\ jobRepo = 0 /\ jobState = "none" /\ mail = {}
  /\ unclean = FALSE /\ drops = 0 /\ apiErrs = 0 /\ runs = 0

IntakeTo(from, to) == intakeAt = from /\ intakeAt' = to
ApiFails(n) == apiErrs + n <= MaxApiErrs /\ apiErrs' = apiErrs + n
ApiFine == UNCHANGED apiErrs

(* Run: a tunnel's daemon sweeps first; behind an external URL the receiver *)
(* is already serving when the hooks are registered.                        *)
RunIntake ==
  /\ runs < MaxRuns /\ runs' = runs + 1
  /\ IntakeTo("down", IF hookMode = "tunnel" THEN "clean" ELSE "register")
  /\ regNext' = 1 /\ regDone' = {} /\ hookFails' = 0
  /\ UNCHANGED <<hookMode, hooks, managed, pubUrl, polling, hookJob, unclean, drops>> /\ ApiFine

(* CleanStaleWebhooks removes every workflow_job hook it can list and delete. *)
CleanStaleWebhooks ==
  /\ IntakeTo("clean", "listen")
  /\ \E kept \in SUBSET hooks : ApiFails(Cardinality(kept)) /\ hooks' = kept /\ unclean' = (kept # {})
  /\ UNCHANGED <<hookMode, managed, hookReg, pubUrl, hookFails, polling, hookJob, hookCount>>

(* Tunnel.Listen: a fresh URL or the same one.  At startup an error ends    *)
(* Run; in the reconnect loop the next round serves the closed listener,    *)
(* which fails at once.                                                     *)
Listen(from, to, failed) ==
  /\ \/ \E u \in Urls : pubUrl' = u /\ IntakeTo(from, to)
     \/ IntakeTo(from, failed) /\ UNCHANGED pubUrl
  /\ regNext' = 1 /\ regDone' = {}
  /\ UNCHANGED <<hookMode, hooks, managed, hookFails, polling, hookJob, unclean, hookCount>> /\ ApiFine

ListenTunnel == Listen("listen", "register", "down") \/ Listen("relisten", "reregister", "lost")

Registering == intakeAt \in {"register", "reregister"}
HookHere == <<regNext, pubUrl>>
RegSame == UNCHANGED <<hookMode, pubUrl, polling, hookJob, hookCount>>

(* The repository's hook is there, found, adopted or created.               *)
HookHeld ==
  /\ regDone' = regDone \cup {HookHere} /\ regNext' = regNext + 1
  /\ UNCHANGED <<intakeAt, managed, hookFails, unclean>> /\ RegSame

(* findRepoHook or adoptRepoWebhook: a hook with this URL is reused.        *)
AdoptHook ==
  /\ Registering /\ regNext <= HookRepos /\ HookHere \in hooks
  /\ UNCHANGED hooks /\ HookHeld /\ ApiFine

CreateHook ==
  /\ Registering /\ regNext <= HookRepos /\ HookHere \notin hooks
  /\ hooks' = hooks \cup {HookHere} /\ HookHeld /\ ApiFine

(* What the caller makes of a failed RegisterWebhooks: Run returns the      *)
(* error, the reconnect loop closes the new listener and goes on, an        *)
(* external URL is served without the hooks.                                *)
AfterFailure ==
  CASE intakeAt = "reregister" -> "lost"
    [] intakeAt = "register" /\ hookMode = "tunnel" -> "down"
    [] OTHER -> "serving"

RegisterFails_Shared(n, left) ==
  /\ ApiFails(n)
  /\ hooks' = hooks \ (regDone \ left)
  /\ unclean' = (unclean \/ left # {}) /\ intakeAt' = AfterFailure
  /\ regDone' = {} /\ UNCHANGED <<regNext, managed, hookFails>> /\ RegSame

(* A repository fails: outside a pool the hooks this call has, its own and  *)
(* those it found, are deleted again ("left" are the deletes that fail).    *)
RegisterFails(n, left) ==
  /\ ApiFails(n)
  /\ hooks' = IF hookMode = "pool" THEN hooks ELSE hooks \ (regDone \ left)
  /\ unclean' = (unclean \/ left # {}) /\ intakeAt' = AfterFailure
  /\ regDone' = {} /\ UNCHANGED <<regNext, managed, hookFails>> /\ RegSame

(* CreateHook fails: one failed call when no hook is there, two (the list   *)
(* and GitHub's refusal of a duplicate) when one is, outside a pool.        *)
RegisterBreaks ==
  /\ Registering /\ regNext <= HookRepos
  /\ \E left \in SUBSET regDone :
       RegisterFails((IF HookHere \in hooks /\ hookMode # "pool" THEN 2 ELSE 1) + Cardinality(left), left)

(* All repositories done: the provider remembers them; a reconnect resets   *)
(* the failures.                                                            *)
Registered ==
  /\ Registering /\ regNext > HookRepos
  /\ managed' = regDone /\ intakeAt' = "serving" /\ hookFails' = 0
  /\ UNCHANGED <<hooks, hookReg, unclean>> /\ RegSame /\ ApiFine

TunnelDrops ==
  /\ hookMode = "tunnel" /\ drops < MaxDrops /\ drops' = drops + 1
  /\ IntakeTo("serving", "lost")
  /\ UNCHANGED <<hookMode, hooks, managed, hookReg, pubUrl, hookFails, polling, hookJob, unclean, runs>> /\ ApiFine

(* DeregisterWebhooks: every managed hook is deleted, but for failed calls; *)
(* none is remembered afterwards.                                           *)
DeregisterWebhooks(left) ==
  /\ left \subseteq managed /\ ApiFails(Cardinality(left))
  /\ hooks' = hooks \ (managed \ left) /\ managed' = {} /\ unclean' = (unclean \/ left # {})

TunnelLost_Uncounted ==
  /\ IntakeTo("lost", "relisten") /\ UNCHANGED <<hookFails, polling>>
  /\ \E left \in SUBSET managed : DeregisterWebhooks(left)
  /\ UNCHANGED <<hookMode, hookReg, pubUrl, hookJob, hookCount>>

(* One round of serveTunnelWithReconnect after Serve returned: the hooks of *)
(* the old URL go; after TunnelRetries failures in a row polling starts.    *)
TunnelLost ==
  /\ hookFails' = hookFails + 1
  /\ IF hookFails' >= TunnelRetries THEN IntakeTo("lost", "polling") /\ polling' = TRUE
                                   ELSE IntakeTo("lost", "relisten") /\ UNCHANGED polling
  /\ \E left \in SUBSET managed : DeregisterWebhooks(left)
  /\ UNCHANGED <<hookMode, hookReg, pubUrl, hookJob, hookCount>>

(* The context ends: the tunnel's goroutine removes its hooks on its way    *)
(* out; external hooks stay.                                                *)
StopIntake ==
  /\ intakeAt \in {"serving", "relisten", "polling"} /\ intakeAt' = "down" /\ polling' = FALSE
  /\ \/ hookMode = "tunnel" /\ \E left \in SUBSET managed : DeregisterWebhooks(left)
     \/ hookMode # "tunnel" /\ managed' = {} /\ UNCHANGED <<hooks, unclean>> /\ ApiFine
  /\ UNCHANGED <<hookMode, hookReg, pubUrl, hookFails, hookJob, hookCount>>

(* The process is killed, or exits before that goroutine has run.           *)
KillIntake ==
  /\ intakeAt # "down" /\ intakeAt' = "down" /\ polling' = FALSE /\ managed' = {}
  /\ unclean' = (unclean \/ hooks # {}) /\ runs < MaxRuns
  /\ UNCHANGED <<hookMode, hooks, hookReg, pubUrl, hookFails, hookJob, hookCount>> /\ ApiFine

PoolMate ==
  /\ hookMode = "pool" /\ \E h \in Hooks : h[2] = pubUrl /\ h \notin hooks /\ hooks' = hooks \cup {h}
  /\ UNCHANGED <<hookMode, intakeAt, managed, hookReg, pubUrl, hookFails, polling, hookJob, unclean, hookCount>>
  /\ ApiFine

JobQueued ==
  /\ jobState = "none" /\ jobState' = "queued" /\ jobRepo' \in HookSites
  /\ mail' = {u \in Urls : <<jobRepo', u>> \in hooks}
  /\ UNCHANGED <<hookMode, intakeAt, hooks, managed, hookReg, pubUrl, hookFails, polling, unclean, hookCount>>
  /\ ApiFine

JobTaken ==
  /\ jobState = "queued" /\ jobState' = "gone"
  /\ UNCHANGED <<jobRepo, mail, hookMode, intakeAt, hooks, managed, hookReg, pubUrl, hookFails, polling, unclean, hookCount>>
  /\ ApiFine

Hears == jobState' = IF jobState = "queued" THEN "heard" ELSE jobState
HearSame == UNCHANGED <<jobRepo, hookMode, intakeAt, hooks, managed, hookReg, pubUrl, hookFails, polling, unclean, hookCount>>

Receiving == intakeAt = "serving" \/ (intakeAt = "register" /\ hookMode # "tunnel")

(* WebhookHandler: what the policy admits is passed on.                     *)
WebhookHandler(u) ==
  /\ u \in mail /\ u = pubUrl /\ Receiving /\ jobRepo \in PolicyRepos
  /\ mail' = mail \ {u} /\ Hears /\ HearSame /\ ApiFine

(* A delivery the tunnel loses, or the policy refuses: not sent again.      *)
DeliveryLost(u) ==
  /\ u \in mail /\ mail' = mail \ {u} /\ UNCHANGED jobState /\ HearSame /\ ApiFine

Up == intakeAt \in {"serving", "lost", "relisten", "reregister", "polling"}

(* Every job a repository lists as queued; a failed listing leaves it to    *)
(* the next round.                                                          *)
PollJobs ==
  /\ jobState = "queued"
  /\ \/ Hears /\ ApiFine
     \/ UNCHANGED jobState /\ ApiFails(1)
  /\ UNCHANGED mail /\ HearSame

(* At startup and from the reconcile loop.                                  *)
CatchUpPoll == Up /\ PollJobs

(* The fallback's own ticker.                                               *)
pollLoop == polling /\ PollJobs

IntakeStep ==
  \/ CleanStaleWebhooks \/ ListenTunnel \/ AdoptHook \/ CreateHook \/ RegisterBreaks
  \/ Registered \/ TunnelLost

IntakeNext ==
  \/ IntakeStep \/ RunIntake \/ TunnelDrops \/ StopIntake \/ KillIntake \/ PoolMate \/ JobQueued \/ JobTaken
  \/ CatchUpPoll \/ pollLoop
  \/ \E u \in Urls : WebhookHandler(u) \/ DeliveryLost(u)

(* The goroutines of the daemon run on; the reconcile ticker fires again.   *)
IntakeFairness == WF_intakeVars(IntakeStep) /\ WF_intakeVars(CatchUpPoll)

IntakeSpec == IntakeInit /\ [][IntakeNext]_intakeVars /\ IntakeFairness

-----------------------------------------------------------------------------
(* While the tunnel serves, each repository has a hook with the URL the     *)
(* tunnel has now, and the provider knows those hooks: whatever sequence of *)
(* lost tunnels, failed deletes and half-finished registrations led here.   *)
ServingIsHooked ==
  (intakeAt = "serving" /\ hookMode = "tunnel") =>
    managed = HookSites \X {pubUrl} /\ managed \subseteq hooks

(* A tunnel's daemon that has stopped or given up on webhooks leaves no     *)
(* hook behind, unless a delete failed or it was killed; the next start's   *)
(* sweep makes even that good.                                              *)
HooksWithdrawn ==
  (hookMode = "tunnel" /\ ~unclean /\ intakeAt \in {"down", "listen", "relisten", "polling"}) => hooks = {}

(* No member of a pool removes a hook that its pool-mates rely on.          *)
SharedHooksKept == [][hookMode = "pool" => hooks \subseteq hooks']_intakeVars

(* A tunnel that breaks comes back under a registered URL, or the daemon    *)
(* falls back to polling.                                                   *)
TunnelSettles == (intakeAt = "lost") ~> (intakeAt \in {"serving", "polling", "down"})

(* A queued job is heard of while the daemon runs, also when its webhook    *)
(* was lost with the tunnel or sent to a URL that is gone.                  *)
QueuedHeard == (jobState = "queued") ~> (jobState # "queued" \/ ~Up)
=============================================================================
