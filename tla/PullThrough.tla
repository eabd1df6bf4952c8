----------------------------- MODULE PullThrough -----------------------------
(***************************************************************************)
(* What the package cache promises of one URL (pkg/proxies/pkgcache).      *)
(* A request is answered with a version that upstream has published,       *)
(* complete; or with what upstream says of its absence; or it is sent to   *)
(* the origin.  An answer that was confirmed with upstream is at least as  *)
(* new as what upstream had when the request came in.  A download that     *)
(* broke, or a daemon that died, may leave the client with less.           *)
(***************************************************************************)
EXTENDS Integers

CONSTANTS Clients, MaxVersion

VARIABLES
  published,   \* the version upstream has
  asked,       \* what upstream had when a request came in
  answer       \* a request's answer

promised == <<published, asked, answer>>

Answers ==
  [kind : {"cached", "confirmed"}, v : 1..MaxVersion]
    \cup [kind : {"none", "pending", "notFound", "origin", "broken"}, v : {0}]

Empty(k) == [kind |-> k, v |-> 0]

PullThroughInit ==
  /\ published = 1
  /\ asked = [c \in Clients |-> 0] /\ answer = [c \in Clients |-> Empty("none")]

PullThroughPublish == published' \in {v \in 1..MaxVersion : v > published} /\ UNCHANGED <<asked, answer>>

PullThroughAsk(c) ==
  /\ answer[c].kind = "none"
  /\ answer' = [answer EXCEPT ![c] = Empty("pending")]
  /\ asked' = [asked EXCEPT ![c] = published]
  /\ UNCHANGED published

Allowed(c) ==
  {a \in Answers : /\ a.kind \in {"cached", "confirmed"} => a.v <= published
                   /\ a.kind = "confirmed" => a.v >= asked[c]
                   /\ a.kind \notin {"none", "pending"}}

\* A restart answers several at once: their connections break.
PullThroughAnswer ==
  /\ \A c \in Clients :
       answer'[c] # answer[c] => answer[c].kind = "pending" /\ answer'[c] \in Allowed(c)
  /\ UNCHANGED <<published, asked>>

PullThroughNext ==
  \/ PullThroughPublish \/ (\E c \in Clients : PullThroughAsk(c)) \/ PullThroughAnswer

PullThroughSpec == PullThroughInit /\ [][PullThroughNext]_promised
=============================================================================
