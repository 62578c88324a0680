------------------------------- MODULE CspRole -------------------------------
(***************************************************************************)
(* The roles of the clouds: mcmp_role_csp_roles and, for the roles of AWS, *)
(* the role of the same name in its IAM.  csp_role_service.go makes a row  *)
(* at "creating", asks the cloud for the role, waits for it and writes     *)
(* "created" or "failed".  For other clouds the row is all there is.       *)
(*                                                                         *)
(* A request is a record with a program counter; its steps are the         *)
(* statements and calls.  A key is a name and a cloud: the look-up goes by *)
(* both, and together they are not unique in the table.                    *)
(***************************************************************************)
EXTENDS Naturals

CONSTANTS
    CspKeys,
    OnAws,        \* the keys whose cloud is AWS
    CspMax,       \* bound: the rows that are ever inserted
    CspCalls      \* bound: the requests that may overlap

ASSUME CspAssumption ==
    /\ OnAws \subseteq CspKeys /\ "none" \notin CspKeys
    /\ CspMax \in Nat

VARIABLES
    cspNextId,    \* the sequence of the ids
    cspKey,       \* the key of each row, "none" when there is no row
    cspStatus,
    inCloud,      \* the roles IAM has
    cspCall,      \* the requests in progress
    cutRows,      \* history: rows whose maker stopped, or written back at "creating"
    lostKeys,     \* history: keys whose role in the cloud was taken from its row
    mixedKeys     \* history: keys of two requests at once, or given by a renaming

cspVars == <<cspNextId, cspKey, cspStatus, inCloud, cspCall, cutRows, lostKeys, mixedKeys>>
cspTable == <<cspNextId, cspKey, cspStatus>>
cspHistory == <<cutRows, lostKeys, mixedKeys>>

CspRows == 1..CspMax
Statuses == {"creating", "created", "failed"}
NoCspCall == [op |-> "none", pc |-> "idle", key |-> "none", row |-> 0, status |-> "created"]
CspCallType ==
    [op : {"none", "create", "update", "delete"},
     pc : {"idle", "find", "look", "record", "make", "poll", "confirm", "giveUp", "sync",
           "save", "drop", "erase"},
     key : CspKeys \cup {"none"}, row : CspRows \cup {0}, status : Statuses]

CspTypeOK ==
    /\ cspNextId \in 1..CspMax + 1
    /\ cspKey \in [CspRows -> CspKeys \cup {"none"}]
    /\ cspStatus \in [CspRows -> Statuses]
    /\ inCloud \subseteq OnAws
    /\ cspCall \in [CspCalls -> CspCallType]
    /\ cutRows \subseteq CspRows /\ lostKeys \subseteq CspKeys /\ mixedKeys \subseteq CspKeys

RowsOf(k) == {i \in CspRows : cspKey[i] = k}
GetCspRoleByName(k) ==
    IF RowsOf(k) = {} THEN 0 ELSE CHOOSE i \in RowsOf(k) : \A j \in RowsOf(k) : i <= j
HasFailed(i) == i # 0 /\ cspStatus[i] = "failed"

CspAt(c, pc) == cspCall[c].pc = pc
Goes(c, changed) == cspCall' = [cspCall EXCEPT ![c] = changed]
CspEnds(c) == Goes(c, NoCspCall)
Begins(c, op, pc, k, i) ==
    /\ CspAt(c, "idle")
    /\ Goes(c, [op |-> op, pc |-> pc, key |-> k, row |-> i,
                status |-> IF i = 0 THEN "created" ELSE cspStatus[i]])
    /\ mixedKeys' = IF \E d \in CspCalls : cspCall[d].key = k THEN mixedKeys \cup {k} ELSE mixedKeys
    /\ UNCHANGED <<cspTable, inCloud, cutRows, lostKeys>>

\* db.Save by primary key: a row that is not there any more is inserted again.
UpdateCspRoleRecord(i, k, status) ==
    /\ cspKey' = [cspKey EXCEPT ![i] = k]
    /\ cspStatus' = [cspStatus EXCEPT ![i] = status]
    /\ UNCHANGED cspNextId

(***************************************************************************)
(* Creation.  A row that has not failed is taken for the role, whoever is  *)
(* still making it; one that failed is made again under its id.            *)
(***************************************************************************)
BeginCreation(c, k) ==
    LET found == GetCspRoleByName(k) IN
    /\ found = 0 \/ HasFailed(found)
    /\ Begins(c, "create", IF k \in OnAws THEN "find" ELSE "record", k, 0)

\* Mutant: the id of the row that failed is not taken over (csp_role_service.go:150).
FindNone(c) ==
    /\ CspAt(c, "find")
    /\ Goes(c, [cspCall[c] EXCEPT !.pc = "look"])
    /\ UNCHANGED <<cspTable, inCloud, cspHistory>>

FindFailed(c) ==
    LET found == GetCspRoleByName(cspCall[c].key) IN
    /\ CspAt(c, "find")
    /\ Goes(c, [cspCall[c] EXCEPT !.pc = "look", !.row = IF HasFailed(found) THEN found ELSE 0])
    /\ UNCHANGED <<cspTable, inCloud, cspHistory>>

\* Mutant: an error of the look-up is taken for the role (csp_role_service.go:157).
GetRoleOrError(c) ==
    /\ CspAt(c, "look")
    /\ \E status \in {"creating", "created"} :
         Goes(c, [cspCall[c] EXCEPT !.pc = "record", !.status = status])
    /\ UNCHANGED <<cspTable, inCloud, cspHistory>>

\* Any error of the look-up counts as absence.
GetRole(c) ==
    /\ CspAt(c, "look")
    /\ \/ Goes(c, [cspCall[c] EXCEPT !.pc = "record", !.status = "creating"])
       \/ /\ cspCall[c].key \in inCloud
          /\ Goes(c, [cspCall[c] EXCEPT !.pc = "record", !.status = "created"])
    /\ UNCHANGED <<cspTable, inCloud, cspHistory>>

RecordedAs(c, i) ==
    Goes(c, IF cspCall[c].key \notin OnAws THEN NoCspCall
            ELSE [cspCall[c] EXCEPT !.row = i,
                                 !.pc = IF cspCall[c].status = "creating" THEN "make" ELSE "sync"])

CreateCspRoleRecord(c) ==
    /\ CspAt(c, "record") /\ cspCall[c].row = 0 /\ cspNextId \in CspRows
    /\ cspNextId' = cspNextId + 1
    /\ cspKey' = [cspKey EXCEPT ![cspNextId] = cspCall[c].key]
    /\ cspStatus' = [cspStatus EXCEPT ![cspNextId] = cspCall[c].status]
    /\ RecordedAs(c, cspNextId)
    /\ UNCHANGED <<inCloud, cspHistory>>

RecordAgain(c) ==
    /\ CspAt(c, "record") /\ cspCall[c].row # 0
    /\ UpdateCspRoleRecord(cspCall[c].row, cspCall[c].key, cspCall[c].status)
    /\ RecordedAs(c, cspCall[c].row)
    /\ UNCHANGED <<inCloud, cspHistory>>

\* IAM makes the role, refuses it, or makes it and the answer is lost.
CreateIamRole(c) ==
    LET k == cspCall[c].key IN
    /\ CspAt(c, "make")
    /\ \/ /\ k \notin inCloud /\ inCloud' = inCloud \cup {k}
          /\ Goes(c, [cspCall[c] EXCEPT !.pc = "poll"])
       \/ inCloud' \in {inCloud, inCloud \cup {k}} /\ Goes(c, [cspCall[c] EXCEPT !.pc = "giveUp"])
    /\ lostKeys' = lostKeys \ inCloud'
    /\ UNCHANGED <<cspTable, cutRows, mixedKeys>>

\* The role is seen, or thirty looks have not shown it.
Poll(c) ==
    /\ CspAt(c, "poll")
    /\ \/ cspCall[c].key \in inCloud /\ Goes(c, [cspCall[c] EXCEPT !.pc = "confirm"])
       \/ Goes(c, [cspCall[c] EXCEPT !.pc = "giveUp"])
    /\ UNCHANGED <<cspTable, inCloud, cspHistory>>

Written(c, status) ==
    /\ UpdateCspRoleRecord(cspCall[c].row, cspCall[c].key, status)
    /\ CspEnds(c)
    /\ UNCHANGED <<inCloud, cspHistory>>

Confirm(c) == (CspAt(c, "confirm") \/ CspAt(c, "sync")) /\ Written(c, "created")

\* Mutant: a role that could not be made is reported and not written down
\* (csp_role_service.go:225).
GiveUpSilently(c) ==
    /\ CspAt(c, "giveUp") /\ CspEnds(c)
    /\ UNCHANGED <<cspTable, inCloud, cspHistory>>

GiveUp(c) == CspAt(c, "giveUp") /\ Written(c, "failed")

(***************************************************************************)
(* Editing a row reads it and writes all of it back, the status included.  *)
(* The cloud is not told of the new name.                                  *)
(***************************************************************************)
BeginUpdate(c, i) == cspKey[i] # "none" /\ Begins(c, "update", "save", cspKey[i], i)

SameCloud(k, l) == k \in OnAws <=> l \in OnAws
UpdateCspRole(c) ==
    LET i == cspCall[c].row IN
    /\ CspAt(c, "save")
    /\ \E k \in CspKeys :
         /\ SameCloud(k, cspCall[c].key)
         /\ UpdateCspRoleRecord(i, k, cspCall[c].status)
         /\ mixedKeys' = IF k = cspCall[c].key THEN mixedKeys ELSE mixedKeys \cup {k}
    /\ cutRows' = IF cspCall[c].status = "creating" THEN cutRows \cup {i} ELSE cutRows
    /\ CspEnds(c)
    /\ UNCHANGED <<inCloud, lostKeys>>

(***************************************************************************)
(* Deletion: the role in the cloud, then the row.  IAM refuses to delete   *)
(* what it does not have, and the row stays.                               *)
(***************************************************************************)
BeginDeletion(c, i) ==
    /\ cspKey[i] # "none"
    /\ Begins(c, "delete", IF cspKey[i] \in OnAws THEN "drop" ELSE "erase", cspKey[i], i)

DeleteAwsIamRole(c) ==
    /\ CspAt(c, "drop") /\ cspCall[c].key \in inCloud
    /\ inCloud' = inCloud \ {cspCall[c].key}
    /\ Goes(c, [cspCall[c] EXCEPT !.pc = "erase"])
    /\ UNCHANGED <<cspTable, cspHistory>>

DeleteCspRoleRecord(c) ==
    /\ CspAt(c, "erase")
    /\ cspKey' = [cspKey EXCEPT ![cspCall[c].row] = "none"]
    /\ cspStatus' = [cspStatus EXCEPT ![cspCall[c].row] = "created"]
    /\ CspEnds(c)
    /\ UNCHANGED <<cspNextId, inCloud, cspHistory>>

(***************************************************************************)
(* A call or a statement fails, or the process dies while it waits.  What  *)
(* the row said before, it goes on saying.                                 *)
(***************************************************************************)
CspCallStops(c) ==
    /\ ~CspAt(c, "idle")
    /\ cutRows' = IF cspCall[c].pc \in {"make", "poll", "confirm", "giveUp"}
                  THEN cutRows \cup {cspCall[c].row} ELSE cutRows
    /\ lostKeys' = IF CspAt(c, "erase") THEN lostKeys \cup {cspCall[c].key} ELSE lostKeys
    /\ CspEnds(c)
    /\ UNCHANGED <<cspTable, inCloud, mixedKeys>>

\* Somebody makes or deletes a role in the console of the cloud.
CloudChanges(k) ==
    /\ inCloud' = IF k \in inCloud THEN inCloud \ {k} ELSE inCloud \cup {k}
    /\ lostKeys' = (lostKeys \cup {k}) \ inCloud'
    /\ UNCHANGED <<cspTable, cspCall, cutRows, mixedKeys>>

CspInit ==
    /\ cspNextId = 1
    /\ cspKey = [i \in CspRows |-> "none"] /\ cspStatus = [i \in CspRows |-> "created"]
    /\ inCloud = {}
    /\ cspCall = [c \in CspCalls |-> NoCspCall]
    /\ cutRows = {} /\ lostKeys = {} /\ mixedKeys = {}

CspStep(c) ==
    \/ \E k \in CspKeys : BeginCreation(c, k)
    \/ FindFailed(c) \/ GetRole(c) \/ CreateCspRoleRecord(c) \/ RecordAgain(c)
    \/ CreateIamRole(c) \/ Poll(c) \/ Confirm(c) \/ GiveUp(c)
    \/ \E i \in CspRows : BeginUpdate(c, i) \/ BeginDeletion(c, i)
    \/ UpdateCspRole(c) \/ DeleteAwsIamRole(c) \/ DeleteCspRoleRecord(c) \/ CspCallStops(c)

CspNext == (\E c \in CspCalls : CspStep(c)) \/ (\E k \in OnAws : CloudChanges(k))
CspSpec == CspInit /\ [][CspNext]_cspVars

----------------------------------------------------------------------------
(***************************************************************************)
(* A row at "creating", which every later request takes for done, is being *)
(* made; or its maker stopped, or an edit wrote an old status back.  No    *)
(* answer of the cloud leaves one behind.                                  *)
(***************************************************************************)
CreatingIsWatched ==
    \A i \in CspRows \ cutRows :
        cspKey[i] # "none" /\ cspStatus[i] = "creating" =>
            \E c \in CspCalls :
                cspCall[c].row = i /\ cspCall[c].pc \in {"make", "poll", "confirm", "giveUp"}

(***************************************************************************)
(* A role that is tried again, deleted and created, is in the table once,  *)
(* unless two requests worked on it at once or another was given its name. *)
(***************************************************************************)
OneRowPerRole ==
    \A i, j \in CspRows : cspKey[i] = cspKey[j] /\ i # j => cspKey[i] \in mixedKeys \cup {"none"}

(***************************************************************************)
(* What is "created" is in the cloud: unless it is being deleted, a        *)
(* deletion stopped half way, somebody took it away there, or its key is   *)
(* one of those above.                                                     *)
(***************************************************************************)
CreatedIsInCloud ==
    \A i \in CspRows :
        cspStatus[i] = "created" /\ cspKey[i] \in OnAws \ (lostKeys \cup mixedKeys) =>
            \/ cspKey[i] \in inCloud
            \/ \E c \in CspCalls : CspAt(c, "erase") /\ cspCall[c].row = i
==============================================================================
