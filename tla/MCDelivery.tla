------------------------------ MODULE MCDelivery ------------------------------
EXTENDS Delivery, TLC
CONSTANTS w1, w2, c1
MCWorkerOf == (c1 :> w1)
FairDeliverySpec == DeliverySpec /\ DeliveryFairness
==============================================================================
