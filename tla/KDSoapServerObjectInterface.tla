--------------------- MODULE KDSoapServerObjectInterface ---------------------
(***************************************************************************)
(* The state a server object keeps from call to call (src/src/KDSoapServer/*)
(* KDSoapServerObjectInterface.cpp).  Each socket has one object, "main";  *)
(* a service that implements processRequestWithPath() may hand requests    *)
(* for another path to a second object, "other", which it keeps.           *)
(*                                                                         *)
(* A field is abstracted to the number of the request it was set for, 0    *)
(* when it is empty: enough to tell what a reply owes to which request.    *)
(***************************************************************************)
EXTENDS Naturals

VARIABLE objects   \* the fields of each object

Fields == {"faultCode", "detail", "detailValue", "responseHeaders"}
Fresh == [f \in Fields |-> 0]

ObjectsTypeOK(n) == objects \in [{"main", "other"} -> [Fields -> 0..n]]

(* Mutant: the fault of the call before is kept.                           *)
setRequestHeadersKeepsFault(main) == [main EXCEPT !.responseHeaders = 0]

(* setRequestHeaders() "prepares for a new request to be handled".         *)
setRequestHeaders(main) == [main EXCEPT !.faultCode = 0, !.responseHeaders = 0]

(* The two setFault(): with a text, possibly empty, or with a value.       *)
setFault(o, i) ==
    {[o EXCEPT !.faultCode = i, !.detail = text] : text \in {0, i}}
        \cup {[o EXCEPT !.faultCode = i, !.detailValue = i]}

setResponseHeaders(o, i) == [o EXCEPT !.responseHeaders = i]

(* What a service method may have done to its object when it returns.      *)
Served(o, i) ==
    LET p == {o} \cup setFault(o, i) IN p \cup {setResponseHeaders(q, i) : q \in p}

processRequest(i) ==
    \E o \in Served(setRequestHeaders(objects["main"]), i) : objects' = [objects EXCEPT !["main"] = o]

(* doneProcessingRequestWithPath() copies faults and headers to "main".    *)
processRequestWithPath(i) ==
    \E o \in Served(objects["other"], i) : objects' = [main |-> o, other |-> o]

(* What is put into a reply: storeFaultAttributes() prefers a detail value *)
(* to a detail text.                                                       *)
hasFault(main) == main.faultCode # 0
faultDetail(main) ==
    CASE ~ hasFault(main) -> 0
      [] main.detailValue # 0 -> main.detailValue
      [] OTHER -> main.detail
=============================================================================
