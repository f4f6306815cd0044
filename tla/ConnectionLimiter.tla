-------------------------- MODULE ConnectionLimiter --------------------------
(* The cap on concurrent connections of an address,                         *)
(* honeypot/listeners/limiter.py.  Each listener has a limiter of its own.  *)
EXTENDS Naturals

CONSTANTS
    Ips,        \* source addresses
    MaxPerIp    \* listeners.max_connections_per_ip; 0 disables the limit

ASSUME MaxPerIpAssumption == MaxPerIp \in Nat

VARIABLE counts   \* ConnectionLimiter._counts

CanAcquire(i) == MaxPerIp = 0 \/ counts[i] < MaxPerIp

Acquire(i) == counts' = IF MaxPerIp = 0 THEN counts ELSE [counts EXCEPT ![i] = @ + 1]

\* Mutant: a released slot is not given back.
ReleaseNothing(i) == counts' = counts

\* Mutant: a connection gives back two slots.
ReleaseTwice(i) == counts' = [counts EXCEPT ![i] = @ - 2]

Release(i) == counts' = IF counts[i] > 0 THEN [counts EXCEPT ![i] = @ - 1] ELSE counts

=============================================================================
