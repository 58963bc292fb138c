---------------------------- MODULE FileTransfer ----------------------------
(***************************************************************************)
(* Upload of files and download of their results (v2/file.js, analyzeFile  *)
(* of engine_client.js), on top of the cluster: a request is handled by a  *)
(* worker that serves, and ends with it.  Results are in a Redis database  *)
(* that all workers share and that the start of a master does not flush.   *)
(*                                                                         *)
(* One action is one handler up to its next await, or one transaction of   *)
(* Redis.  A result has the upload as its key: keys are random and fresh.  *)
(***************************************************************************)
EXTENDS ClusterLifecycle

CONSTANTS Upload, Download  \* the requests that are made

ASSUME FileAssumption == Upload # {} /\ Upload \cap Download = {}

VARIABLES
  upload,    \* where the handler of an upload is
  answer,    \* what its client got
  temp,      \* uploads whose temporary file exists
  store,     \* the results in Redis
  download,  \* where the handler of a download is
  key,       \* the key it asks for
  result,    \* what its transaction returned
  handler    \* the worker of a request

fileVars == <<upload, answer, temp, store, download, key, result, handler>>
vars == <<clusterVars, fileVars>>
allVars == <<faults, vars>>

Request == Upload \cup Download
Result == {"csv", "empty"}

FileTypeOK ==
  /\ upload \in [Upload -> {"idle", "analyze", "store", "stored", "count",
                            "error", "done", "lost"}]
  /\ answer \in [Upload -> {"none", "key", "csv", "error"}]
  /\ temp \subseteq Upload
  /\ store \in [Upload -> {"none"} \cup Result]
  /\ download \in [Download -> {"idle", "exec", "reply", "served", "notFound",
                                "lost"}]
  /\ key \in [Download -> Upload]
  /\ result \in [Download -> {"none"} \cup Result]
  /\ handler \in [Request -> Worker]

TypeOK == ClusterTypeOK /\ FileTypeOK

Init ==
  /\ ClusterInit
  /\ upload = [u \in Upload |-> "idle"]
  /\ answer = [u \in Upload |-> "none"]
  /\ temp = {}
  /\ store = [u \in Upload |-> "none"]
  /\ download = [d \in Download |-> "idle"]
  /\ key = [d \in Download |-> CHOOSE u \in Upload : TRUE]
  /\ result = [d \in Download |-> "none"]
  /\ handler = [r \in Request |-> 1]

-----------------------------------------------------------------------------
(***************************************************************************)
(* POST /uploadFile.                                                       *)
(***************************************************************************)
Handled(r) == Alive(handler[r])

\* multer has written the file.
ReceiveUpload(u, w) ==
  /\ "files" \in faults
  /\ upload[u] = "idle" /\ Serves(w)
  /\ upload' = [upload EXCEPT ![u] = "analyze"]
  /\ handler' = [handler EXCEPT ![u] = w]
  /\ temp' = temp \cup {u}
  /\ UNCHANGED <<answer, store, download, key, result>>

\* The result is answered, or is to be stored, or there is none.
Analyzed(u) ==
  /\ upload[u] = "analyze" /\ Handled(u)
  /\ \/ /\ upload' = [upload EXCEPT ![u] = "count"]
        /\ answer' = [answer EXCEPT ![u] = "csv"]
     \/ /\ \E next \in {"store", "error"} :
             upload' = [upload EXCEPT ![u] = next]
        /\ UNCHANGED answer
  /\ UNCHANGED <<temp, store, download, key, result, handler>>

\* SET and EXPIRE in one transaction.  The result of a file without segments
\* is an empty text.
Store(u) ==
  /\ upload[u] = "store" /\ Handled(u)
  /\ upload' = [upload EXCEPT ![u] = "stored"]
  /\ \E csv \in Result : store' = [store EXCEPT ![u] = csv]
  /\ UNCHANGED <<answer, temp, download, key, result, handler>>

AnswerKey(u) ==
  /\ upload[u] = "stored" /\ Handled(u)
  /\ upload' = [upload EXCEPT ![u] = "count"]
  /\ answer' = [answer EXCEPT ![u] = "key"]
  /\ UNCHANGED <<temp, store, download, key, result, handler>>

\* Lines 77-79.  Mutant: only if there was no error.
UnlinkResult(u) == IF upload[u] = "count" THEN temp \ {u} ELSE temp
Unlink(u) == temp \ {u}

\* The request is counted, an error answered, the file removed.
FinishUpload(u) ==
  /\ upload[u] \in {"count", "error"} /\ Handled(u)
  /\ upload' = [upload EXCEPT ![u] = "done"]
  /\ answer' = [answer EXCEPT ![u] = IF upload[u] = "error" THEN "error" ELSE @]
  /\ temp' = Unlink(u)
  /\ UNCHANGED <<store, download, key, result, handler>>

-----------------------------------------------------------------------------
(***************************************************************************)
(* POST /downloadFile.                                                     *)
(***************************************************************************)
ReceiveDownload(d, u, w) ==
  /\ download[d] = "idle" /\ answer[u] = "key" /\ Serves(w)
  /\ download' = [download EXCEPT ![d] = "exec"]
  /\ key' = [key EXCEPT ![d] = u]
  /\ handler' = [handler EXCEPT ![d] = w]
  /\ UNCHANGED <<upload, answer, temp, store, result>>

\* What the transaction leaves.  Mutant: GET without DEL.
Kept(u) == store
Removed(u) == [store EXCEPT ![u] = "none"]

\* GET and DEL in one transaction.
Exec(d) ==
  /\ download[d] = "exec" /\ Handled(d)
  /\ download' = [download EXCEPT ![d] = "reply"]
  /\ result' = [result EXCEPT ![d] = store[key[d]]]
  /\ store' = Removed(key[d])
  /\ UNCHANGED <<upload, answer, temp, key, handler>>

\* Line 90: an empty result is not found either.
Reply(d) ==
  /\ download[d] = "reply" /\ Handled(d)
  /\ download' = [download EXCEPT ![d] =
                    IF result[d] = "csv" THEN "served" ELSE "notFound"]
  /\ UNCHANGED <<upload, answer, temp, store, key, result, handler>>

-----------------------------------------------------------------------------
(***************************************************************************)
(* Redis and the workers.                                                  *)
(***************************************************************************)
Expire(u) ==
  /\ "expire" \in faults
  /\ store[u] # "none"
  /\ store' = [store EXCEPT ![u] = "none"]
  /\ UNCHANGED <<upload, answer, temp, download, key, result, handler>>

\* A client loses its connection with the worker.
LoseUpload(u) ==
  /\ upload[u] \notin {"idle", "done", "lost"} /\ ~Handled(u)
  /\ upload' = [upload EXCEPT ![u] = "lost"]
  /\ UNCHANGED <<answer, temp, store, download, key, result, handler>>

LoseDownload(d) ==
  /\ download[d] \in {"exec", "reply"} /\ ~Handled(d)
  /\ download' = [download EXCEPT ![d] = "lost"]
  /\ UNCHANGED <<upload, answer, temp, store, key, result, handler>>

FileStep ==
  \/ \E u \in Upload :
       \/ \E w \in Worker : ReceiveUpload(u, w)
       \/ Analyzed(u) \/ Store(u) \/ AnswerKey(u) \/ FinishUpload(u)
       \/ Expire(u) \/ LoseUpload(u)
  \/ \E d \in Download :
       \/ \E u \in Upload, w \in Worker : ReceiveDownload(d, u, w)
       \/ Exec(d) \/ Reply(d) \/ LoseDownload(d)

Next ==
  /\ \/ ClusterStep /\ UNCHANGED fileVars
     \/ FileStep /\ UNCHANGED clusterVars
  /\ UNCHANGED faults

Spec == Init /\ [][Next]_allVars

\* The engine and Redis answer.
FairSpec ==
  /\ Spec
  /\ ClusterFairness
  /\ \A u \in Upload :
       /\ WF_fileVars(Analyzed(u)) /\ WF_fileVars(Store(u))
       /\ WF_fileVars(AnswerKey(u)) /\ WF_fileVars(FinishUpload(u))
       /\ WF_fileVars(LoseUpload(u))
  /\ \A d \in Download :
       WF_fileVars(Exec(d)) /\ WF_fileVars(Reply(d)) /\ WF_fileVars(LoseDownload(d))

-----------------------------------------------------------------------------
(***************************************************************************)
(* Properties.                                                             *)
(***************************************************************************)

\* The places of the result of u: Redis, and the downloads that have got it.
Stored(u) == store[u] # "none"
Got(d, u) == key[d] = u /\ result[d] # "none"

\* A result is in one place at most: however downloads of it overlap and
\* whatever workers die, it is delivered once.  If its key was answered it is
\* in one place, until it expires.
ResultInOnePlace ==
  \A u \in Upload :
    /\ Stored(u) => \A d \in Download : ~Got(d, u)
    /\ \A d, e \in Download : Got(d, u) /\ Got(e, u) => d = e
    /\ answer[u] = "key" /\ "expire" \notin faults =>
         Stored(u) \/ \E d \in Download : Got(d, u)

\* An upload is answered and its file removed, or its worker is gone.
UploadEnds ==
  \A u \in Upload :
    u \in temp ~> \/ u \notin temp /\ answer[u] # "none"
                  \/ ~Handled(u)

=============================================================================
