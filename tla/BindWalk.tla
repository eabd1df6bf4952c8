------------------------------- MODULE BindWalk -------------------------------
(***************************************************************************)
(* How a bind source is pinned (pkg/dind/bindpin_linux.go): the path is    *)
(* walked one component at a time beneath an open root, every directory on *)
(* the way held as a descriptor; a symbolic link puts its target in front  *)
(* of what is left; missing components are made.  The job may rename,      *)
(* replace or remove any component at any time, so what a component turns  *)
(* out to be is chosen when it is opened.                                  *)
(***************************************************************************)
EXTENDS Integers, Sequences, SequencesExt

CONSTANTS
  MaxPath,     \* components of a requested path
  MaxTarget,   \* components of a link's target
  MaxLinks     \* maxPinSymlinks

ASSUME BindWalkAssumption == MaxPath \in Nat /\ MaxTarget \in Nat /\ MaxLinks \in Nat

VARIABLES
  walkAt,      \* where pinBindSource is
  stack,       \* the open directories of the walk, root copy first: their depth
  remaining,   \* components still to resolve
  links,       \* links followed
  missing,     \* components that createUnder has to make
  fds          \* descriptors that are open: how many

walkVars == <<walkAt, stack, remaining, links, missing, fds>>

\* A cleaned path has no dots; a link's target has what the job wrote.
Paths == BoundedSeq({"name"}, MaxPath)
Targets == BoundedSeq({"name", ".."}, MaxTarget)

BindWalkTypeOK ==
  /\ walkAt \in {"idle", "walk", "create", "pin", "pinned", "failed"}
  /\ stack \in Nat /\ links \in 0..MaxLinks /\ fds \in Nat
  /\ remaining \in Seq({"name", ".."}) /\ missing \in 0..MaxPath

BindWalkInit ==
  /\ walkAt = "idle" /\ stack = 0 /\ remaining = <<>> /\ links = 0 /\ missing = 0 /\ fds = 0

\* openPathDir of the root, and its copy at the bottom of the stack.
pinBindSource ==
  /\ walkAt = "idle"
  /\ \E p \in Paths \ {<<>>} :
       walkAt' = "walk" /\ stack' = 1 /\ remaining' = p /\ fds' = 2
  /\ UNCHANGED <<links, missing>>

Walking == walkAt = "walk" /\ remaining # <<>>

\* ".." pops, but never the root.
WalkUp ==
  /\ Walking /\ Head(remaining) = ".."
  /\ remaining' = Tail(remaining)
  /\ IF stack > 1 THEN stack' = stack - 1 /\ fds' = fds - 1 ELSE UNCHANGED <<stack, fds>>
  /\ UNCHANGED <<walkAt, links, missing>>

\* A directory, or the file at the end.
WalkDown ==
  /\ Walking /\ Head(remaining) = "name"
  /\ remaining' = Tail(remaining)
  /\ stack' = stack + 1 /\ fds' = fds + 1
  /\ UNCHANGED <<walkAt, links, missing>>

\* A link: an absolute target starts at the root again, which is all that stays
\* open then.
WalkLink ==
  /\ Walking /\ Head(remaining) = "name" /\ links < MaxLinks
  /\ links' = links + 1
  /\ \E t \in Targets, abs \in BOOLEAN :
       /\ remaining' = t \o Tail(remaining)
       /\ stack' = IF abs THEN 1 ELSE stack
       /\ fds' = IF abs THEN fds - (stack - 1) ELSE fds
  /\ UNCHANGED <<walkAt, missing>>

\* The component cannot be opened or examined, or is one link too many.  When it
\* does not exist and the root may be written to, createBeneath finds the
\* longest prefix that resolves; the rest is missing.
WalkFails ==
  /\ Walking /\ Head(remaining) = "name"
  /\ fds' = fds - stack /\ stack' = 0 /\ remaining' = <<>>
  /\ walkAt' = "failed"
  /\ UNCHANGED <<links, missing>>

createBeneath ==
  /\ Walking /\ Head(remaining) = "name"
  /\ \E n \in 1..MaxPath : missing' = n
  /\ fds' = fds - stack + 1 /\ stack' = 1 /\ remaining' = <<>>
  /\ walkAt' = "create"
  /\ UNCHANGED links

\* createUnder: one directory made and opened, its parent closed.
createUnder ==
  /\ walkAt = "create" /\ missing > 0
  /\ missing' = missing - 1
  /\ UNCHANGED <<walkAt, stack, remaining, links, fds>>

\* mkdirat, openat or fchownat fails: what it holds is closed.
CreateUnderFails ==
  /\ walkAt = "create" /\ missing > 0
  /\ walkAt' = "failed" /\ missing' = 0
  /\ fds' = fds - 1 /\ stack' = 0
  /\ UNCHANGED <<remaining, links>>

\* The top of the stack is the result, everything under it is closed.
Resolved ==
  /\ \/ walkAt = "walk" /\ remaining = <<>>
     \/ walkAt = "create" /\ missing = 0
  /\ walkAt' = "pin"
  /\ fds' = fds - (stack - 1) /\ stack' = 1
  /\ UNCHANGED <<remaining, links, missing>>

\* newBindPin, then rejectUnbindableType: a file or a directory, or the pin is
\* closed.
newBindPin ==
  /\ walkAt = "pin"
  /\ \/ walkAt' = "pinned" /\ UNCHANGED <<stack, fds>>
     \/ walkAt' = "failed" /\ stack' = 0 /\ fds' = fds - 1
  /\ UNCHANGED <<remaining, links, missing>>

BindWalkStep ==
  \/ WalkUp \/ WalkDown \/ WalkLink \/ WalkFails \/ createBeneath
  \/ createUnder \/ CreateUnderFails \/ Resolved \/ newBindPin

BindWalkNext == pinBindSource \/ BindWalkStep

BindWalkFairness == WF_walkVars(BindWalkStep)

BindWalkSpec == BindWalkInit /\ [][BindWalkNext]_walkVars /\ BindWalkFairness

-----------------------------------------------------------------------------
\* No descriptor leaks and none is closed twice, on any path out, whatever the
\* job does to the tree meanwhile: the deferred close of the root is one, the
\* pin the other.
DescriptorsBalanced ==
  /\ walkAt = "pinned" => fds = 2
  /\ walkAt = "failed" => fds = 1
  /\ walkAt = "walk" => fds = 1 + stack /\ stack >= 1

\* The walk ends although every link may lead to another: links are counted.
WalkEnds == walkAt = "walk" ~> walkAt \in {"pinned", "failed"}
=============================================================================
