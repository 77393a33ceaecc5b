----------------------------- MODULE PackageDigest -----------------------------
(***************************************************************************)
(* HttpZdmPackageResolver.resolve: what the digest of a ZDM package is     *)
(* that an installation task tells its agent to verify.  Requests of       *)
(* several operators interleave at every await, and the files on the ZDM   *)
(* server (external) are replaced and rolled back at any time.  The server *)
(* sends a validator with a file, its ETag or its Last-Modified, or none.  *)
(*                                                                         *)
(* One ZDM host; keys of different hosts differ.  A digest is named by the *)
(* content it was computed from.                                           *)
(***************************************************************************)
EXTENDS Integers, FiniteSets

CONSTANTS
    None,
    Requests,
    Paths,             \* zdm_package_path, zdm_package_path_windows
    Contents,
    Size,              \* content -> its length
    Tags,              \* validators; None: the server sends neither header
    MaxReplaced        \* bound: how often a file is replaced

ASSUME DigestAssumption == Size \in [Contents -> Nat] /\ None \notin Tags \cup Contents

VARIABLES
    file,              \* path -> [content, tag], as the ZDM server has it
    replaced,          \* how often that has changed
    served,            \* [content, tag] that the server ever had
    cache,             \* tag -> digest, or None
    req,               \* request -> where it is and what it knows
    raced              \* tags under which a GET met another file than its HEAD

vars == <<file, replaced, served, cache, req, raced>>

Files == [content : Contents, tag : Tags \cup {None}]

NewRequest == [pc |-> "start", path |-> None, tag |-> None, size |-> 0,
               seen |-> None, digest |-> None]

Init ==
    /\ file \in [Paths -> Files]
    /\ served = {file[p] : p \in Paths}
    /\ replaced = 0
    /\ cache = [t \in Tags |-> None]
    /\ req = [r \in Requests |-> NewRequest]
    /\ raced = {}

\* A package is deployed or rolled back.
Replace ==
    /\ replaced < MaxReplaced
    /\ replaced' = replaced + 1
    /\ \E p \in Paths, f \in Files :
          /\ f # file[p]
          /\ file' = [file EXCEPT ![p] = f]
          /\ served' = served \cup {f}
    /\ UNCHANGED <<cache, req, raced>>

\* The key's TTL is over, or Redis lost it.
Expire ==
    /\ \E t \in Tags : cache[t] # None /\ cache' = [cache EXCEPT ![t] = None]
    /\ UNCHANGED <<file, replaced, served, req, raced>>

-----------------------------------------------------------------------------

\* HEAD gives the length and the validator.
Head(r, p) ==
    /\ req[r].pc = "start"
    /\ Size[file[p].content] > 0
    /\ req' = [req EXCEPT ![r] = [pc |-> IF file[p].tag = None THEN "get" ELSE "lookup",
                                  path |-> p, tag |-> file[p].tag,
                                  size |-> Size[file[p].content],
                                  seen |-> file[p].content, digest |-> None]]
    /\ UNCHANGED <<file, replaced, served, cache, raced>>

Hit(r) ==
    /\ req[r].pc = "lookup"
    /\ cache[req[r].tag] # None
    /\ req' = [req EXCEPT ![r].pc = "done", ![r].digest = cache[req[r].tag]]
    /\ UNCHANGED <<file, replaced, served, cache, raced>>

\* No entry, or Redis does not answer.
Miss(r) ==
    /\ req[r].pc = "lookup"
    /\ req' = [req EXCEPT ![r].pc = "get"]
    /\ UNCHANGED <<file, replaced, served, cache, raced>>

\* Mutant: whatever arrives is taken.
CompleteAlways(r, content) == TRUE

Complete(r, content) == Size[content] = req[r].size

\* The file is read as it is now; its digest counts if it has the length of the HEAD.
Get(r) ==
    LET now == file[req[r].path].content
    IN  /\ req[r].pc = "get"
        /\ Complete(r, now)
        /\ req' = [req EXCEPT ![r].pc = IF req[r].tag = None THEN "done" ELSE "store",
                              ![r].digest = now]
        /\ raced' = IF now = req[r].seen THEN raced ELSE raced \cup {req[r].tag}
        /\ UNCHANGED <<file, replaced, served, cache>>

\* safe_set fails open.
Store(r) ==
    /\ req[r].pc = "store"
    /\ cache' \in {cache, [cache EXCEPT ![req[r].tag] = req[r].digest]}
    /\ req' = [req EXCEPT ![r].pc = "done"]
    /\ UNCHANGED <<file, replaced, served, raced>>

\* The server does not answer, answers with another status, or sends another
\* length than with the HEAD: nothing is published, and the operator asks again.
\* (A HEAD that fails or has no usable length changes nothing.)
Fail(r) ==
    /\ req[r].pc = "get"
    /\ req' = [req EXCEPT ![r] = NewRequest]
    /\ UNCHANGED <<file, replaced, served, cache, raced>>

\* The tasks are published; the next request comes.
Again(r) ==
    /\ req[r].pc = "done"
    /\ req' = [req EXCEPT ![r] = NewRequest]
    /\ UNCHANGED <<file, replaced, served, cache, raced>>

Next ==
    \/ Replace \/ Expire
    \/ \E r \in Requests :
          \/ \E p \in Paths : Head(r, p)
          \/ Hit(r) \/ Miss(r) \/ Get(r) \/ Store(r) \/ Fail(r) \/ Again(r)

Spec == Init /\ [][Next]_vars

-----------------------------------------------------------------------------
(* Properties *)

\* The server has sent this validator with different contents, of one path or of
\* two: the key has no path in it.
Ambiguous(tag) == \E f, g \in served : f.tag = tag /\ g.tag = tag /\ f.content # g.content

\* resolve promises the digest of the file that its HEAD was about.  It differs
\* only if the server sent one validator with two contents, or if a file of the
\* same length was put in its place between the HEAD and the GET of this request
\* or of an earlier one that filled the cache; without a validator only the
\* request's own GET can be late.  The length always fits the digest, unless the
\* validator is ambiguous.
DigestFitsFile ==
    \A r \in Requests : req[r].pc = "done" =>
        /\ req[r].digest # req[r].seen => req[r].tag \in raced \/ Ambiguous(req[r].tag)
        /\ req[r].tag = None \/ ~Ambiguous(req[r].tag) => Size[req[r].digest] = req[r].size
=============================================================================
