----------------------------- MODULE ActionsCache -----------------------------
(***************************************************************************)
(* Saving one key to the Actions cache (pkg/proxies/actionscache): runners *)
(* of the same repository and branch reserve an entry, upload its blocks   *)
(* in parallel, commit the block list and finalize, which stores a         *)
(* manifest in the registry.  A runner is tracked, bound to its scope when *)
(* its job is known, and forgotten when it ends.  Every handler reads what *)
(* it needs under p.mu and then works without it.                          *)
(***************************************************************************)
EXTENDS Integers, FiniteSets

CONSTANTS
  Savers,      \* runners whose jobs save the key
  Blocks,      \* the blocks of an archive
  MaxTokens    \* a bound on the uploads that are reserved

NoSaver == "none"

ASSUME ActionsCacheAssumption == MaxTokens \in Nat /\ NoSaver \notin Savers

Tokens == 1..MaxTokens
NoToken == 0

VARIABLES
  boundJob,    \* p.jobs[runner]
  uploads,     \* the tokens in p.uploads
  byKey,       \* p.byKey[runner + key + version]
  pendingOf,   \* token -> the pending upload
  sending,     \* blocks on their way to the registry, by token
  creating,    \* runners whose create has found no entry
  finalizing,  \* tokens that finalize has taken out of the maps
  acManifest,    \* the token whose manifest the registry has for the key
  inIndex      \* the token the scope's index knows

acMaps == <<uploads, byKey>>
acStore == <<acManifest, inIndex>>
acVars == <<boundJob, acMaps, pendingOf, sending, creating, finalizing, acStore>>

FreshTokens(r) == [runner |-> r, blocks |-> {}, order |-> FALSE, failed |-> FALSE]
NoPending == [runner |-> NoSaver, blocks |-> {}, order |-> FALSE, failed |-> FALSE]
EntryUsed == {t \in Tokens : pendingOf[t] # NoPending}

ActionsTypeOK ==
  /\ boundJob \in [Savers -> {"tracked", "bound", "dropped", "forgotten"}]
  /\ uploads \subseteq EntryUsed /\ byKey \in [Savers -> Tokens \cup {NoToken}]
  /\ acManifest \in EntryUsed \cup {NoToken} /\ inIndex \in EntryUsed \cup {NoToken}
  /\ finalizing \subseteq EntryUsed /\ finalizing \cap uploads = {}

\* Track has made both runners known.
ActionsInit ==
  /\ boundJob = [r \in Savers |-> "tracked"] /\ uploads = {} /\ byKey = [r \in Savers |-> NoToken]
  /\ pendingOf = [t \in Tokens |-> NoPending] /\ sending = [t \in Tokens |-> {}]
  /\ creating = {} /\ finalizing = {} /\ acManifest = NoToken /\ inIndex = NoToken

\* Bind: a second, different scope takes the access away.
Bind(r) ==
  /\ boundJob[r] \in {"tracked", "bound"}
  /\ boundJob' = [boundJob EXCEPT ![r] = IF boundJob[r] = "tracked" THEN "bound" ELSE "dropped"]
  /\ UNCHANGED <<acMaps, pendingOf, sending, creating, finalizing, acStore>>

Forget(r) ==
  /\ boundJob[r] # "forgotten" /\ boundJob' = [boundJob EXCEPT ![r] = "forgotten"]
  /\ uploads' = {t \in uploads : pendingOf[t].runner # r}
  /\ byKey' = [byKey EXCEPT ![r] = IF byKey[r] \in uploads THEN NoToken ELSE byKey[r]]
  /\ UNCHANGED <<pendingOf, sending, creating, finalizing, acStore>>

-----------------------------------------------------------------------------
\* createEntry, up to the answer of exists: refresh reads the registry's tags.
\* It is refused while the registry does not answer the probe.
createEntry(r) ==
  /\ boundJob[r] = "bound" /\ r \notin creating /\ acManifest = NoToken
  /\ creating' = creating \cup {r}
  /\ UNCHANGED <<boundJob, acMaps, pendingOf, sending, finalizing, acStore>>

Reserve_KeepsOld(r, t) ==
  /\ r \in creating /\ t = Cardinality(EntryUsed) + 1 /\ creating' = creating \ {r}
  /\ pendingOf' = [pendingOf EXCEPT ![t] = FreshTokens(r)]
  /\ uploads' = uploads \cup {t} /\ byKey' = [byKey EXCEPT ![r] = t]
  /\ UNCHANGED <<boundJob, sending, finalizing, acStore>>

\* A token is handed out; an upload of the same key that the runner had
\* reserved before is replaced in both maps.
Reserve(r, t) ==
  /\ r \in creating /\ t = Cardinality(EntryUsed) + 1 /\ creating' = creating \ {r}
  /\ pendingOf' = [pendingOf EXCEPT ![t] = FreshTokens(r)]
  /\ uploads' = (uploads \ {byKey[r]}) \cup {t} /\ byKey' = [byKey EXCEPT ![r] = t]
  /\ UNCHANGED <<boundJob, sending, finalizing, acStore>>

\* caller: the runner's address still belongs to a tracked job.
Known(r) == boundJob[r] \in {"tracked", "bound", "dropped"}

\* serveUpload of one block: the token is looked up, then the block streams.
serveUpload(t, b) ==
  /\ t \in uploads /\ Known(pendingOf[t].runner) /\ b \notin sending[t] \cup pendingOf[t].blocks
  /\ sending' = [sending EXCEPT ![t] = @ \cup {b}]
  /\ UNCHANGED <<boundJob, acMaps, pendingOf, creating, finalizing, acStore>>

\* storeBlock returns: the block is in the registry, or the upload has failed
\* for good (uploadFailed), whatever has become of the token meanwhile.
storeBlock(t, b) ==
  /\ b \in sending[t] /\ sending' = [sending EXCEPT ![t] = @ \ {b}]
  /\ \/ pendingOf' = [pendingOf EXCEPT ![t].blocks = @ \cup {b}]
     \/ pendingOf' = [pendingOf EXCEPT ![t].failed = TRUE]
  /\ UNCHANGED <<boundJob, acMaps, creating, finalizing, acStore>>

\* The block list: it names every block of the archive, sent or not.
parseBlockList(t) ==
  /\ t \in uploads /\ Known(pendingOf[t].runner) /\ ~pendingOf[t].order
  /\ pendingOf' = [pendingOf EXCEPT ![t].order = TRUE]
  /\ UNCHANGED <<boundJob, acMaps, sending, creating, finalizing, acStore>>

\* finalizeEntry takes the upload out of the maps, so that a second one, a
\* Forget or an expiry finds nothing ...
finalizeEntry(r) ==
  /\ boundJob[r] = "bound" /\ byKey[r] # NoToken
  /\ finalizing' = finalizing \cup {byKey[r]}
  /\ uploads' = uploads \ {byKey[r]} /\ byKey' = [byKey EXCEPT ![r] = NoToken]
  /\ UNCHANGED <<boundJob, pendingOf, sending, creating, acStore>>

\* ... reads the committed list: no failed block, none missing, and the size
\* the client names ...
committed(u) == u.order /\ ~u.failed /\ u.blocks = Blocks

finalizeRefuses(t) ==
  /\ t \in finalizing /\ finalizing' = finalizing \ {t}
  /\ UNCHANGED <<boundJob, acMaps, pendingOf, sending, creating, acStore>>

\* ... and puts the manifest under the key's tag and into the index.
putManifest(t) ==
  /\ t \in finalizing /\ committed(pendingOf[t])
  /\ finalizing' = finalizing \ {t} /\ acManifest' = t /\ inIndex' = t
  /\ UNCHANGED <<boundJob, acMaps, pendingOf, sending, creating>>

\* evict, of the least recently used entries: by the digest the index knows.
evict ==
  /\ inIndex # NoToken /\ inIndex' = NoToken
  /\ acManifest' = IF acManifest = inIndex THEN NoToken ELSE acManifest
  /\ UNCHANGED <<boundJob, acMaps, pendingOf, sending, creating, finalizing>>

\* A lookup: refresh brings the index in line with the registry's tags, where
\* an entry it knows already is not read again, and grants what it finds.
getDownloadURL ==
  /\ inIndex' = IF acManifest # NoToken /\ inIndex # NoToken THEN inIndex ELSE acManifest
  /\ UNCHANGED <<boundJob, acMaps, pendingOf, sending, creating, finalizing, acManifest>>

\* expire: what is older than pendingTTL goes from both maps.
expire(t) ==
  /\ t \in uploads /\ uploads' = uploads \ {t}
  /\ byKey' = [byKey EXCEPT ![pendingOf[t].runner] = NoToken]
  /\ UNCHANGED <<boundJob, pendingOf, sending, creating, finalizing, acStore>>

ActionsNext ==
  \/ \E r \in Savers : Bind(r) \/ Forget(r) \/ createEntry(r) \/ finalizeEntry(r)
                       \/ \E t \in Tokens : Reserve(r, t)
  \/ \E t \in Tokens : \/ parseBlockList(t) \/ finalizeRefuses(t) \/ putManifest(t) \/ expire(t)
                       \/ \E b \in Blocks : serveUpload(t, b) \/ storeBlock(t, b)
  \/ evict \/ getDownloadURL

ActionsFairness == \A t \in Tokens : WF_acVars(expire(t))

ActionsSpec == ActionsInit /\ [][ActionsNext]_acVars /\ ActionsFairness

-----------------------------------------------------------------------------
\* What the registry has, and what a download is granted for, has every block of its archive, however blocks, failures and the
\* finalize overtake each other.
SavedWhole == \A t \in {acManifest, inIndex} \ {NoToken} : pendingOf[t].blocks = Blocks

\* The two maps name the same uploads, one for a runner and key: a token that
\* only one of them holds could be written to and never finalized.
UploadsAgree == uploads = {byKey[r] : r \in Savers} \ {NoToken}

\* An upload nobody finalizes goes: also one reserved by a create that was
\* under way when its runner was forgotten.
ReservationEnds == \A t \in Tokens : t \in uploads ~> t \notin uploads
=============================================================================
