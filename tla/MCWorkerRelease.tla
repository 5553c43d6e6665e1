--------------------------- MODULE MCWorkerRelease ---------------------------
(* One worker shared by two bookings of a client whose wallet pays only one, for TLC. *)
EXTENDS WorkerRelease

CONSTANTS b1, b2, shop, client, w1, none

MCKind == [h \in Handlers |-> h]
MCCarts == {{b1}, {b2}}
MCShopOf == [b \in Bookings |-> shop]
MCWorkerOf == [b \in Bookings |-> w1]
MCClientOf == [c \in Carts |-> client]
MCAmount == [b \in Bookings |-> 10]
MCTotal == [c \in Carts |-> 10]
MCFunds == [c \in Clients |-> 19]
==============================================================================
