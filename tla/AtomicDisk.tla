------------------------------ MODULE AtomicDisk ------------------------------
(***************************************************************************)
(* What SynchDisk promises (filesys/synchdisk.h): a thread that reads or   *)
(* writes a sector gets it done as one atomic step, one request at a time, *)
(* and returns only when the disk has finished with its own request.       *)
(***************************************************************************)
CONSTANTS Clients, Sectors, Values, None

VARIABLES
    contents,  \* what is on the disk
    request,   \* the request of each client, None between two requests
    progress,  \* "called", "performed" or "served"
    result     \* what the last read of each client returned

vars == <<contents, request, progress, result>>

Requests == [sector : Sectors, data : Values \cup {None}]  \* None: a read

Init ==
    /\ contents \in [Sectors -> Values]
    /\ request = [t \in Clients |-> None]
    /\ progress = [t \in Clients |-> "called"]
    /\ result = [t \in Clients |-> None]

Call(t) ==
    /\ request[t] = None
    /\ \E r \in Requests : request' = [request EXCEPT ![t] = r]
    /\ UNCHANGED <<contents, progress, result>>

(* The effect of the request, when no other is in progress. *)
Perform(t) ==
    /\ request[t] # None /\ progress[t] = "called"
    /\ \A u \in Clients : progress[u] # "performed"
    /\ LET r == request[t]
       IN IF r.data = None
          THEN /\ result' = [result EXCEPT ![t] = contents[r.sector]]
               /\ UNCHANGED contents
          ELSE /\ contents' = [contents EXCEPT ![r.sector] = r.data]
               /\ UNCHANGED result
    /\ progress' = [progress EXCEPT ![t] = "performed"]
    /\ UNCHANGED request

Serve(t) ==
    /\ progress[t] = "performed"
    /\ progress' = [progress EXCEPT ![t] = "served"]
    /\ UNCHANGED <<contents, request, result>>

Return(t) ==
    /\ request[t] # None /\ progress[t] = "served"
    /\ request' = [request EXCEPT ![t] = None]
    /\ progress' = [progress EXCEPT ![t] = "called"]
    /\ UNCHANGED <<contents, result>>

Next == \E t \in Clients : Call(t) \/ Perform(t) \/ Serve(t) \/ Return(t)

Spec == Init /\ [][Next]_vars
=============================================================================
