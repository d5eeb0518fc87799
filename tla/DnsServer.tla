------------------------------ MODULE DnsServer ------------------------------
(* DnsServer: the addresses of the hosts a program asks for, refreshed by a  *)
(* thread of its own. One lock guards hosts_info_ in every function but the  *)
(* thread's loop over it.                                                    *)
EXTENDS Integers, Sequences

CONSTANTS
  Hosts,
  retry_,        (* lookups of a host in one round                           *)
  MaxAddresses,  (* addresses a lookup finds                                 *)
  Indexes,       (* that GetHostAddress is called with                       *)
  SizeModulus    (* size_t wraps at                                          *)

VARIABLES
  hosts_info_,   (* of each host that was added, its addresses               *)
  dns,           (* the thread: where it is and what it is looking up        *)
  died           (* undefined behaviour has ended the process                *)

NoHost == "nobody"
Null == 0

NoDns == [at |-> "off", running_ |-> FALSE, left |-> {}, host |-> NoHost,
          tries |-> 0, list |-> <<>>, raced |-> FALSE]

GetHostAddress(host, index) ==
  IF host \notin DOMAIN hosts_info_ \/ hosts_info_[host] = <<>> THEN Null
  ELSE LET list == hosts_info_[host]
       IN  list[((index % SizeModulus) % Len(list)) + 1]

Iterating == dns.at \in {"next", "lookup", "found"}

(* A host that is new goes into the map the thread may be looping over.      *)
AddHost(host) ==
  /\ host \notin DOMAIN hosts_info_
  /\ hosts_info_' = [h \in DOMAIN hosts_info_ \cup {host} |->
                       IF h = host THEN <<>> ELSE hosts_info_[h]]
  /\ dns' = [dns EXCEPT !.raced = @ \/ Iterating]

StartDns ==
  /\ dns.at = "off"
  /\ dns' = [dns EXCEPT !.at = "top", !.running_ = TRUE]

StopDns == dns.running_ /\ dns' = [dns EXCEPT !.running_ = FALSE]

StopReturns == dns.at = "ended"

-----------------------------------------------------------------------------
(* OnWork, on the thread.                                                    *)
Round ==
  /\ dns.at = "top"
  /\ dns' = IF dns.running_
            THEN [dns EXCEPT !.at = "next", !.left = DOMAIN hosts_info_, !.raced = FALSE]
            ELSE [dns EXCEPT !.at = "ended"]
  /\ UNCHANGED <<hosts_info_, died>>

(* On to the next host, if the map has not changed since the round began.    *)
NextHost ==
  /\ dns.at = "next" /\ ~dns.raced
  /\ IF dns.left = {} THEN dns' = [dns EXCEPT !.at = "top", !.host = NoHost]
     ELSE \E h \in dns.left :
            dns' = [dns EXCEPT !.at = "lookup", !.left = @ \ {h}, !.host = h, !.tries = 0]
  /\ UNCHANGED <<hosts_info_, died>>

(* If it has, hosts may come again or be missed, or the iterator is bad.     *)
NextHostRaced ==
  /\ dns.at = "next" /\ dns.raced
  /\ \/ /\ \E left \in SUBSET DOMAIN hosts_info_ :
             dns' = [dns EXCEPT !.left = left, !.raced = FALSE]
        /\ UNCHANGED died
     \/ died' = TRUE /\ UNCHANGED dns
  /\ UNCHANGED hosts_info_

(* GetHostInfo: getaddrinfo's list, which is longer or shorter; when it      *)
(* fails its result is read all the same, and may be null or not an address. *)
Lookup ==
  /\ dns.at = "lookup" /\ dns.tries < retry_
  /\ \E n \in 1 .. MaxAddresses :
       dns' = [dns EXCEPT !.at = "found", !.list = [i \in 1 .. n |-> i]]
  /\ UNCHANGED <<hosts_info_, died>>

LookupFails ==
  /\ dns.at = "lookup" /\ dns.tries < retry_
  /\ \/ dns' = [dns EXCEPT !.at = "found", !.list = <<>>] /\ UNCHANGED died
     \/ died' = TRUE /\ UNCHANGED dns
  /\ UNCHANGED hosts_info_

GiveUp ==
  /\ dns.at = "lookup" /\ dns.tries = retry_
  /\ dns' = [dns EXCEPT !.at = "next", !.tries = 0]
  /\ UNCHANGED <<hosts_info_, died>>

(* A list with addresses replaces the host's, an empty one is tried again.   *)
TakesAny(list) == TRUE

Takes(list) == list # <<>>

UpdateHost ==
  /\ dns.at = "found"
  /\ IF Takes(dns.list)
     THEN /\ hosts_info_' = [hosts_info_ EXCEPT ![dns.host] = dns.list]
          /\ dns' = [dns EXCEPT !.at = "next", !.list = <<>>, !.tries = 0]
     ELSE /\ dns' = [dns EXCEPT !.at = "lookup", !.tries = @ + 1]
          /\ UNCHANGED hosts_info_
  /\ UNCHANGED died

OnWork ==
  Round \/ NextHost \/ NextHostRaced \/ Lookup \/ LookupFails \/ GiveUp \/ UpdateHost
=============================================================================
