--------------------------- MODULE AddressLeases ---------------------------
(***************************************************************************)
(* What wg-manager promises about tunnel addresses, with nothing said of   *)
(* how it keeps the promise: on every VPN server an address has at most    *)
(* one holder, an account holds at most one address, and an account's      *)
(* address changes or ends only by a step that concerns that account.      *)
(***************************************************************************)
EXTENDS Naturals

CONSTANTS Accounts,   \* accounts that own VPN peers
          Servers,    \* VPN servers
          Addresses,  \* host addresses of a server's subnet
          Nobody      \* the holder of an address that is free

VARIABLE holder       \* holder[s][b]: the account that address b of s belongs to

Leases == [Addresses -> Accounts \cup {Nobody}]

(* The addresses of server s after account a gave up what it had there.    *)
Without(a, s) ==
  [b \in Addresses |-> IF holder[s][b] = a THEN Nobody ELSE holder[s][b]]

Init == holder = [s \in Servers |-> [b \in Addresses |-> Nobody]]

(* Account a obtains address b of server s, in exchange for the one it had *)
(* there; b is free, or already a's.                                       *)
Acquire(a, s, b) ==
  /\ holder[s][b] \in {Nobody, a}
  /\ holder' = [holder EXCEPT ![s] = [Without(a, s) EXCEPT ![b] = a]]

Surrender(a, s) ==
  holder' = [holder EXCEPT ![s] = Without(a, s)]

Next ==
  \E a \in Accounts, s \in Servers :
     \/ \E b \in Addresses : Acquire(a, s, b)
     \/ Surrender(a, s)

Spec == Init /\ [][Next]_holder
=============================================================================
