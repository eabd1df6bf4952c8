----------------------------- MODULE CacheDownload ----------------------------
(***************************************************************************)
(* Serving a byte range of a cached archive (pkg/proxies/actionscache,     *)
(* serveDownload): the archive is stored as a list of blobs, and the range *)
(* a client asks for is cut from them.  A byte is its position in the      *)
(* archive; clients fetch ranges in parallel and put them together again.  *)
(***************************************************************************)
EXTENDS Integers, Sequences

CONSTANTS
  MaxLayer,    \* a bound on the bytes of a blob
  MaxLayers    \* a bound on the number of blobs

ASSUME CacheDownloadAssumption == MaxLayer \in Nat /\ MaxLayers \in Nat

NoBound == -1                            \* a bound the Range header leaves open
Bounds == NoBound..(MaxLayer * MaxLayers + 1)

VARIABLES
  layers,      \* the sizes of the blobs
  range,       \* the Range header's two numbers; <<NoBound, NoBound>> for none
  dlAt,        \* where the handler is
  layer,       \* the index of the loop in streamRange
  off, left,   \* the offset into what is left, and the bytes still to send
  sent         \* the bytes sent

dlVars == <<layers, range, dlAt, layer, off, left, sent>>

StartOf[i \in 0..MaxLayers] ==
  IF i = 0 THEN 0 ELSE StartOf[i - 1] + (IF i \in DOMAIN layers THEN layers[i] ELSE 0)
EntrySize == StartOf[MaxLayers]

DownloadTypeOK ==
  /\ dlAt \in {"parse", "stream", "sent", "unsatisfiable", "aborted"} /\ layer \in 1..(MaxLayers + 1)
  /\ sent \in Seq(Nat) /\ left >= 0

DownloadInit ==
  /\ layers \in UNION {[1..n -> 0..MaxLayer] : n \in 0..MaxLayers}
  /\ range \in Bounds \X Bounds /\ dlAt = "parse" /\ layer = 1 /\ off = 0 /\ left = 0 /\ sent = <<>>

Smaller(a, b) == IF a < b THEN a ELSE b

\* parseRange: "a-b", "a-" and the suffix "-n"; an end past the archive is cut.
Satisfiable(a, b, size) ==
  \/ a = NoBound /\ b > 0
  \/ a >= 0 /\ a < size /\ (b = NoBound \/ b >= a)

parseRange(a, b, size) ==
  IF a = NoBound THEN [from |-> size - Smaller(b, size), to |-> size - 1]
  ELSE [from |-> a, to |-> IF b = NoBound THEN size - 1 ELSE Smaller(b, size - 1)]

\* serveDownload: an empty archive ignores the header.
WholeEntry == [from |-> 0, to |-> EntrySize - 1]
Wanted ==
  IF range = <<NoBound, NoBound>> \/ EntrySize = 0 THEN WholeEntry ELSE parseRange(range[1], range[2], EntrySize)

serveDownload ==
  /\ dlAt = "parse"
  /\ IF range # <<NoBound, NoBound>> /\ EntrySize > 0 /\ ~Satisfiable(range[1], range[2], EntrySize)
     THEN dlAt' = "unsatisfiable" /\ UNCHANGED <<off, left>>
     ELSE dlAt' = "stream" /\ off' = Wanted.from /\ left' = Wanted.to - Wanted.from + 1
  /\ UNCHANGED <<layers, range, layer, sent>>

\* One turn of streamRange: skip the blob, or send what of it is asked for.
Take == Smaller(layers[layer] - off, left)

streamRange ==
  /\ dlAt = "stream" /\ left > 0 /\ layer <= Len(layers) /\ layer' = layer + 1
  /\ IF off >= layers[layer] THEN off' = off - layers[layer] /\ UNCHANGED <<sent, left>>
     ELSE sent' = sent \o [i \in 1..Take |-> StartOf[layer - 1] + off + i - 1]
          /\ left' = left - Take /\ off' = 0
  /\ UNCHANGED <<layers, range, dlAt>>

\* The registry fails, or sends less than it was asked for: the connection is
\* cut, so that the client does not take the answer for complete.
openBlobFails ==
  /\ dlAt = "stream" /\ left > 0 /\ dlAt' = "aborted"
  /\ UNCHANGED <<layers, range, layer, off, left, sent>>

\* The loop is over.
Streamed ==
  /\ dlAt = "stream" /\ (left = 0 \/ layer > Len(layers))
  /\ dlAt' = IF left > 0 THEN "aborted" ELSE "sent"
  /\ UNCHANGED <<layers, range, layer, off, left, sent>>

DownloadNext == serveDownload \/ streamRange \/ openBlobFails \/ Streamed

DownloadSpec == DownloadInit /\ [][DownloadNext]_dlVars

-----------------------------------------------------------------------------
\* An answer that ends well holds the bytes of the archive from the first
\* to the last one asked for, each once and in order, over every split into
\* blobs, empty ones and empty archives too.
RangeExact ==
  dlAt = "sent" => /\ Len(sent) = Wanted.to - Wanted.from + 1
                   /\ \A i \in DOMAIN sent : sent[i] = Wanted.from + i - 1

\* A range that parseRange accepts lies within the archive, so that the
\* promised Content-Length can be kept and no answer is cut for its sake.
RangeWithin == dlAt = "aborted" => layer <= Len(layers)
=============================================================================
