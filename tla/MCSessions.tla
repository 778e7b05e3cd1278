----------------------------- MODULE MCSessions -----------------------------
(* A customer with two tabs of one browser, and an admin who never signs in *)
(* here: what matters of an admin is what is done to the customer.          *)
EXTENDS Sessions

CONSTANTS ana, boss, phone, tab1, tab2

MCFirstRole  == [u \in User |-> IF u = boss THEN "SUPER_ADMIN" ELSE "CUSTOMER"]
MCBrowserOf  == [i \in Tab |-> phone]
MCCustomerOf == [b \in Browser |-> ana]
=============================================================================
