------------------------- MODULE PackageDigest_proofs -------------------------
(***************************************************************************)
(* Proofs for PackageDigest: which digest a request may return, for any    *)
(* number of requests, files, contents and validators.                     *)
(***************************************************************************)
EXTENDS PackageDigest, TLAPS

Pcs == {"start", "lookup", "get", "store", "done"}

Knowledge == [pc : Pcs, path : Paths \cup {None}, tag : Tags \cup {None}, size : Nat,
              seen : Contents \cup {None}, digest : Contents \cup {None}]

TypeOK ==
    /\ file \in [Paths -> Files]
    /\ served \in SUBSET Files
    /\ cache \in [Tags -> Contents \cup {None}]
    /\ req \in [Requests -> Knowledge]
    /\ raced \in SUBSET (Tags \cup {None})

\* A digest d that may be cached under the validator t: the server sent t with a
\* content of that length, and with that very content unless some GET was late.
Fits(t, d) == \E f \in served : /\ f.tag = t
                                /\ Size[f.content] = Size[d]
                                /\ f.content = d \/ t \in raced

\* A digest of the request's own GET.
OwnDigest(q) == /\ q.digest \in Contents
                /\ Size[q.digest] = q.size
                /\ q.digest = q.seen \/ q.tag \in raced

FilesServed == \A p \in Paths : file[p] \in served

CacheFits == \A t \in Tags : cache[t] # None => Fits(t, cache[t])

\* What a request at each point knows.
HeadKnown(q) == q.pc # "start" =>
    /\ q.path \in Paths /\ q.seen \in Contents
    /\ [content |-> q.seen, tag |-> q.tag] \in served
    /\ q.size = Size[q.seen]

DigestKnown(q) ==
    /\ q.pc = "lookup" => q.tag \in Tags
    /\ q.pc = "store" => q.tag \in Tags /\ OwnDigest(q)
    /\ q.pc = "done" => /\ q.digest \in Contents
                        /\ IF q.tag = None THEN OwnDigest(q) ELSE Fits(q.tag, q.digest)

DigestInv ==
    /\ TypeOK /\ FilesServed /\ CacheFits
    /\ \A r \in Requests : HeadKnown(req[r]) /\ DigestKnown(req[r])

\* What the server has sent and which validators were raced only grows, so that
\* what was known of a digest or of a request stays known.
LEMMA KnownStays ==
    ASSUME served \subseteq served', raced \subseteq raced'
    PROVE  /\ \A t, d : Fits(t, d) => Fits(t, d)'
           /\ \A q : HeadKnown(q) => HeadKnown(q)'
           /\ \A q : DigestKnown(q) => DigestKnown(q)'
<1>1. \A t, d : Fits(t, d) => Fits(t, d)'
    BY DEF Fits
<1>2. \A q : HeadKnown(q) => HeadKnown(q)'
    BY DEF HeadKnown
<1>3. \A q : OwnDigest(q) => OwnDigest(q)'
    BY DEF OwnDigest
<1>4. \A q : DigestKnown(q) => DigestKnown(q)'
    BY <1>1, <1>3 DEF DigestKnown
<1> QED
    BY <1>1, <1>2, <1>4

\* Requests that stay where they are, and one that goes to q.
LEMMA RequestStep ==
    ASSUME DigestInv, NEW r \in Requests, NEW q \in Knowledge, req' = [req EXCEPT ![r] = q],
           served' = served, file' = file, raced \subseteq raced',
           raced' \in SUBSET (Tags \cup {None}),
           cache' \in [Tags -> Contents \cup {None}],
           \A t \in Tags : cache'[t] \in {None, cache[t]} \/ Fits(t, cache[t])',
           HeadKnown(q)', DigestKnown(q)'
    PROVE  DigestInv'
<1>1. TypeOK'
    BY DEF DigestInv, TypeOK
<1>2. \A s \in Requests : req'[s] = IF s = r THEN q ELSE req[s]
    BY DEF DigestInv, TypeOK
<1>3. \A s \in Requests : HeadKnown(req[s])' /\ DigestKnown(req[s])'
    BY <1>2, KnownStays DEF DigestInv
<1>4. CacheFits'
    BY KnownStays DEF DigestInv, CacheFits
<1>5. FilesServed'
    BY DEF DigestInv, FilesServed
<1> QED
    BY <1>1, <1>3, <1>4, <1>5 DEF DigestInv

(* Every step keeps the invariant. *)
LEMMA DigestStep == DigestInv /\ [Next]_vars => DigestInv'
<1> SUFFICES ASSUME DigestInv, [Next]_vars PROVE DigestInv'
    OBVIOUS
<1> USE DigestAssumption
<1>0. TypeOK
    BY DEF DigestInv
<1>1. CASE Replace
  <2>1. PICK p \in Paths, f \in Files : file' = [file EXCEPT ![p] = f] /\ served' = served \cup {f}
    BY <1>1 DEF Replace
  <2>2. UNCHANGED <<cache, req, raced>>
    BY <1>1 DEF Replace
  <2>3. TypeOK' /\ FilesServed'
    BY <1>0, <2>1, <2>2 DEF DigestInv, TypeOK, FilesServed
  <2>4. served \subseteq served' /\ raced \subseteq raced'
    BY <2>1, <2>2
  <2>5. CacheFits'
    BY <2>2, <2>4, KnownStays DEF DigestInv, CacheFits
  <2>6. \A r \in Requests : HeadKnown(req[r])' /\ DigestKnown(req[r])'
    BY <2>2, <2>4, KnownStays DEF DigestInv
  <2> QED
    BY <2>3, <2>5, <2>6 DEF DigestInv
<1>2. CASE Expire
  <2>1. /\ cache' \in [Tags -> Contents \cup {None}]
        /\ \A t \in Tags : cache'[t] \in {None, cache[t]}
        /\ UNCHANGED <<file, served, req, raced>>
    BY <1>0, <1>2 DEF Expire, TypeOK
  <2>2. TypeOK' /\ FilesServed'
    BY <1>0, <2>1 DEF DigestInv, TypeOK, FilesServed
  <2>3. CacheFits'
    BY <2>1, KnownStays DEF DigestInv, CacheFits
  <2>4. \A r \in Requests : HeadKnown(req[r])' /\ DigestKnown(req[r])'
    BY <2>1, KnownStays DEF DigestInv
  <2> QED
    BY <2>2, <2>3, <2>4 DEF DigestInv
<1>3. ASSUME NEW r \in Requests, NEW p \in Paths, Head(r, p) PROVE DigestInv'
  <2>1. /\ file[p] \in Files /\ file[p] \in served
        /\ file[p] = [content |-> file[p].content, tag |-> file[p].tag]
    BY <1>0 DEF TypeOK, DigestInv, FilesServed, Files
  <2>2. PICK q \in Knowledge :
             /\ q = [pc |-> IF file[p].tag = None THEN "get" ELSE "lookup",
                     path |-> p, tag |-> file[p].tag, size |-> Size[file[p].content],
                     seen |-> file[p].content, digest |-> None]
             /\ req' = [req EXCEPT ![r] = q]
    BY <1>3, <2>1 DEF Head, Files, Knowledge, Pcs
  <2>3. UNCHANGED <<file, served, cache, raced>>
    BY <1>3 DEF Head
  <2>4. HeadKnown(q) /\ DigestKnown(q)
    BY <2>1, <2>2 DEF HeadKnown, DigestKnown, Files
  <2>5. HeadKnown(q)' /\ DigestKnown(q)'
    BY <2>3, <2>4, KnownStays
  <2> QED
    BY <1>0, <2>2, <2>3, <2>5, RequestStep DEF TypeOK
<1>4. ASSUME NEW r \in Requests, Fail(r) \/ Again(r) PROVE DigestInv'
  <2>1. NewRequest \in Knowledge /\ req' = [req EXCEPT ![r] = NewRequest]
    BY <1>4 DEF Fail, Again, NewRequest, Knowledge, Pcs
  <2>2. UNCHANGED <<file, served, cache, raced>>
    BY <1>4 DEF Fail, Again
  <2>3. HeadKnown(NewRequest)' /\ DigestKnown(NewRequest)'
    BY DEF HeadKnown, DigestKnown, NewRequest
  <2> QED
    BY <1>0, <2>1, <2>2, <2>3, RequestStep DEF TypeOK
<1>5. ASSUME NEW r \in Requests PROVE req[r] \in Knowledge /\ HeadKnown(req[r]) /\ DigestKnown(req[r])
  BY <1>0 DEF TypeOK, DigestInv
<1>6. ASSUME NEW r \in Requests, Hit(r) PROVE DigestInv'
  <2>1. req[r].pc = "lookup" /\ req[r].tag \in Tags /\ cache[req[r].tag] # None
    BY <1>5, <1>6 DEF Hit, DigestKnown
  <2>2. cache[req[r].tag] \in Contents /\ Fits(req[r].tag, cache[req[r].tag])
    BY <1>0, <2>1 DEF TypeOK, DigestInv, CacheFits
  <2> DEFINE Q == [req[r] EXCEPT !.pc = "done", !.digest = cache[req[r].tag]]
  <2>a. Q \in Knowledge
    BY <1>5, <2>2 DEF Knowledge, Pcs
  <2>b. req' = [req EXCEPT ![r] = Q]
    BY <1>0, <1>6 DEF Hit, TypeOK
  <2>3. PICK q \in Knowledge : q = Q /\ req' = [req EXCEPT ![r] = q]
    BY <2>a, <2>b
  <2>4. /\ q.pc = "done" /\ q.digest = cache[req[r].tag]
        /\ q.tag = req[r].tag /\ q.path = req[r].path /\ q.seen = req[r].seen /\ q.size = req[r].size
    BY <1>5, <2>3 DEF Knowledge
  <2>5. UNCHANGED <<file, served, cache, raced>>
    BY <1>6 DEF Hit
  <2>6. HeadKnown(q)
    BY <1>5, <2>1, <2>4 DEF HeadKnown
  <2>7. DigestKnown(q)
    BY <2>1, <2>2, <2>4 DEF DigestKnown
  <2>8. HeadKnown(q)' /\ DigestKnown(q)'
    BY <2>5, <2>6, <2>7, KnownStays
  <2> QED
    BY <1>0, <2>3, <2>5, <2>8, RequestStep DEF TypeOK
<1>7. ASSUME NEW r \in Requests, Miss(r) PROVE DigestInv'
  <2>1. PICK q \in Knowledge : q = [req[r] EXCEPT !.pc = "get"] /\ req' = [req EXCEPT ![r] = q]
    BY <1>0, <1>5, <1>7 DEF Miss, TypeOK, Knowledge, Pcs
  <2>2. /\ q.pc = "get" /\ q.tag = req[r].tag /\ q.path = req[r].path
        /\ q.seen = req[r].seen /\ q.size = req[r].size
    BY <1>5, <2>1 DEF Knowledge
  <2>3. UNCHANGED <<file, served, cache, raced>>
    BY <1>7 DEF Miss
  <2>4. HeadKnown(q) /\ DigestKnown(q)
    BY <1>5, <1>7, <2>2 DEF HeadKnown, DigestKnown, Miss
  <2>5. HeadKnown(q)' /\ DigestKnown(q)'
    BY <2>3, <2>4, KnownStays
  <2> QED
    BY <1>0, <2>1, <2>3, <2>5, RequestStep DEF TypeOK
<1>8. ASSUME NEW r \in Requests, Get(r) PROVE DigestInv'
  <2>1. PICK d \in Contents : d = file[req[r].path].content
    BY <1>0, <1>5, <1>8 DEF Get, HeadKnown, TypeOK, Files
  <2> DEFINE Q == [req[r] EXCEPT !.pc = IF req[r].tag = None THEN "done" ELSE "store",
                                 !.digest = d]
  <2>a. Q \in Knowledge
    BY <1>5, <2>1 DEF Knowledge, Pcs
  <2>b. req' = [req EXCEPT ![r] = Q]
    BY <1>0, <1>8, <2>1 DEF Get, TypeOK
  <2>2. PICK q \in Knowledge : q = Q /\ req' = [req EXCEPT ![r] = q]
    BY <2>a, <2>b
  <2>3. /\ q.pc = (IF req[r].tag = None THEN "done" ELSE "store") /\ q.digest = d
        /\ q.tag = req[r].tag /\ q.path = req[r].path /\ q.seen = req[r].seen /\ q.size = req[r].size
        /\ q.tag \in Tags \cup {None}
    BY <1>5, <2>2 DEF Knowledge
  <2>4. /\ UNCHANGED <<file, served, cache>>
        /\ Size[d] = req[r].size
        /\ raced' = IF d = req[r].seen THEN raced ELSE raced \cup {req[r].tag}
    BY <1>8, <2>1 DEF Get, Complete
  <2>5. HeadKnown(q)'
    BY <1>5, <1>8, <2>3, <2>4 DEF HeadKnown, Get
  <2>6. OwnDigest(q)'
    BY <2>3, <2>4 DEF OwnDigest
  <2>7. DigestKnown(q)'
    BY <2>3, <2>6 DEF DigestKnown
  <2>8. raced \subseteq raced' /\ raced' \in SUBSET (Tags \cup {None})
    BY <1>0, <2>3, <2>4 DEF TypeOK
  <2> QED
    BY <1>0, <2>2, <2>4, <2>5, <2>7, <2>8, RequestStep DEF TypeOK
<1>9. ASSUME NEW r \in Requests, Store(r) PROVE DigestInv'
  <2>1. req[r].pc = "store" /\ req[r].tag \in Tags /\ OwnDigest(req[r])
    BY <1>5, <1>9 DEF Store, DigestKnown
  (* The file of the HEAD is the one the digest fits. *)
  <2>2. Fits(req[r].tag, req[r].digest)
    BY <1>5, <2>1 DEF OwnDigest, HeadKnown, Fits
  <2>3. PICK q \in Knowledge : q = [req[r] EXCEPT !.pc = "done"] /\ req' = [req EXCEPT ![r] = q]
    BY <1>0, <1>5, <1>9 DEF Store, TypeOK, Knowledge, Pcs
  <2>4. /\ q.pc = "done" /\ q.digest = req[r].digest
        /\ q.tag = req[r].tag /\ q.path = req[r].path /\ q.seen = req[r].seen /\ q.size = req[r].size
    BY <1>5, <2>3 DEF Knowledge
  <2>5. UNCHANGED <<file, served, raced>>
    BY <1>9 DEF Store
  <2>6. HeadKnown(q)
    BY <1>5, <2>1, <2>4 DEF HeadKnown
  <2>7. DigestKnown(q)
    BY <2>1, <2>2, <2>4 DEF DigestKnown, OwnDigest
  <2>8. HeadKnown(q)' /\ DigestKnown(q)'
    BY <2>5, <2>6, <2>7, KnownStays
  <2>9. /\ cache' \in [Tags -> Contents \cup {None}]
        /\ \A t \in Tags : cache'[t] = cache[t] \/ (t = req[r].tag /\ cache'[t] = req[r].digest)
    BY <1>0, <1>9, <2>1 DEF Store, TypeOK, OwnDigest
  <2>10. \A t \in Tags : cache'[t] \in {None, cache[t]} \/ Fits(t, cache[t])'
    BY <2>2, <2>5, <2>9 DEF Fits
  <2> QED
    BY <1>0, <2>3, <2>5, <2>8, <2>9, <2>10, RequestStep DEF TypeOK
<1>10. CASE UNCHANGED vars
  BY <1>10 DEF vars, DigestInv, TypeOK, FilesServed, CacheFits, HeadKnown, DigestKnown, OwnDigest, Fits
<1> QED
  BY <1>1, <1>2, <1>3, <1>4, <1>6, <1>7, <1>8, <1>9, <1>10 DEF Next

\* The invariant holds, for any number of requests and of replaced files.
THEOREM Invariance == Spec => []DigestInv
<1>1. Init => DigestInv
  <2> SUFFICES ASSUME Init PROVE DigestInv
    OBVIOUS
  <2> USE DigestAssumption
  <2>1. TypeOK
    BY DEF Init, TypeOK, NewRequest, Knowledge, Pcs
  <2>2. FilesServed /\ CacheFits
    BY DEF Init, FilesServed, CacheFits
  <2>3. \A r \in Requests : HeadKnown(req[r]) /\ DigestKnown(req[r])
    BY DEF Init, HeadKnown, DigestKnown, NewRequest
  <2> QED
    BY <2>1, <2>2, <2>3 DEF DigestInv
<1> QED
  BY <1>1, DigestStep, PTL DEF Spec

\* resolve returns the digest of the file its HEAD was about, unless a validator
\* is ambiguous or a GET met another file of the same length, and a digest that
\* fits the length whenever the validator is not ambiguous (_resolve_one).
THEOREM DigestFits == Spec => []DigestFitsFile
<1>1. DigestInv => DigestFitsFile
  <2> SUFFICES ASSUME DigestInv, NEW r \in Requests, req[r].pc = "done"
               PROVE  /\ req[r].digest # req[r].seen => req[r].tag \in raced \/ Ambiguous(req[r].tag)
                      /\ req[r].tag = None \/ ~Ambiguous(req[r].tag) =>
                            Size[req[r].digest] = req[r].size
    BY DEF DigestFitsFile
  <2>1. HeadKnown(req[r]) /\ DigestKnown(req[r])
    BY DEF DigestInv
  <2>2. CASE req[r].tag = None
    BY <2>1, <2>2 DEF DigestKnown, OwnDigest
  <2>3. CASE req[r].tag # None
    <3>1. PICK f \in served : /\ f.tag = req[r].tag
                              /\ Size[f.content] = Size[req[r].digest]
                              /\ f.content = req[r].digest \/ req[r].tag \in raced
      BY <2>1, <2>3 DEF DigestKnown, Fits
    <3>2. PICK g \in served : g.content = req[r].seen /\ g.tag = req[r].tag
      BY <2>1 DEF HeadKnown
    <3>3. Ambiguous(req[r].tag) \/ f.content = g.content
      BY <3>1, <3>2 DEF Ambiguous
    <3> QED
      BY <2>1, <2>3, <3>1, <3>2, <3>3 DEF HeadKnown
  <2> QED
    BY <2>2, <2>3
<1> QED
  BY <1>1, Invariance, PTL
=============================================================================
