CONSTANTS
  cake = cake
  flowers = flowers
  garland = garland
  Orders = {o1, o2}
  Events = {e1, e2}
  Services = {cake, flowers, garland}
  Days = {d1, d2}
  VendorOf <- TwoVendors
  Sessions = {c1, c2}
SPECIFICATION Spec
SYMMETRY Symmetry
INVARIANTS
  Consistent
  LiveOrderHoldsItsDay
  NoDoubleBooking
  HeldForSomebody
