---------------------------- MODULE MCComponents ----------------------------
(***************************************************************************)
(* Components with small instances, checked in one run. They do not        *)
(* interact: a behaviour is one of the component chosen at the start, and  *)
(* the others stay in their initial states.                                *)
(***************************************************************************)
EXTENDS MCCsLookup, DeadNonceListLoad, TcpTransport, ClientFace, PrefixPropagator

VARIABLE part

lookupVars == <<store, fresh>>

\* For the prefix propagator: two names, one of which a second identity can sign too.
TwoNames == {<<1, 1>>, <<1, 2>>}
TwoIdentities == {<<1>>, <<1, 1>>}

ComponentsInit ==
    /\ part \in {"lookup", "dnl", "tcp", "client", "propagator"}
    /\ LookupInit
    /\ TcpInit
    /\ ClientInit
    /\ PropagatorInit
    /\ LoadInit
    /\ part = "dnl" \/ rate = 0
    /\ part = "tcp" \/ t.persistency = "permanent"
    /\ part = "propagator" \/ p.identities = {}

ComponentsNext ==
    /\ UNCHANGED part
    /\ \/ /\ part = "lookup" /\ LookupNext
          /\ UNCHANGED <<loadVars, tcpVars, clientVars, propagatorVars>>
       \/ /\ part = "dnl" /\ LoadNext
          /\ UNCHANGED <<lookupVars, tcpVars, clientVars, propagatorVars>>
       \/ /\ part = "tcp" /\ TcpNext
          /\ UNCHANGED <<lookupVars, loadVars, clientVars, propagatorVars>>
       \/ /\ part = "client" /\ ClientNext
          /\ UNCHANGED <<lookupVars, loadVars, tcpVars, propagatorVars>>
       \/ /\ part = "propagator" /\ PropagatorNext
          /\ UNCHANGED <<lookupVars, loadVars, tcpVars, clientVars>>

\* Each component with the fairness of its own specification.
ComponentsSpec ==
    /\ ComponentsInit
    /\ [][ComponentsNext]_<<part, lookupVars, loadVars, tcpVars, clientVars, propagatorVars>>
    /\ WF_loadVars(part = "dnl" /\ LoadNext)
    /\ WF_tcpVars(part = "tcp" /\ t.running /\ RunHandler)
    /\ WF_clientVars(part = "client" /\ f.running /\ (RunPosted \/ Receive))
    /\ \A n \in 1 .. MaxCalls :
          SF_clientVars(part = "client" /\ f.running
                           /\ \E e \in f.pit : e.id = n /\ Timeout(e))
    /\ PropagatorFairness

=============================================================================
