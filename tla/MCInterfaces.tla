----------------------------- MODULE MCInterfaces -----------------------------
(* The instances of Interfaces that TLC checks. *)
EXTENDS Interfaces

NoStrings  == <<>>
AllStrings == <<<<77>>, <<80>>, <<83>>>>

(* No endpoints, one in each direction, or a second OUT endpoint.          *)
Endpoints ==
  LET in(num, size) == [addr |-> 129 + 2 * num, size |-> size]
      out(num, k, size) == [addr |-> k + 2 * num, size |-> size]
  IN [num \in IfaceNum |->
        {<<>>, <<out(num, 1, 512), in(num, 64)>>, <<in(num, 8), out(num, 1, 16), out(num, 2, 300)>>}]

(* A HID descriptor behind another one as long and before a third; and one *)
(* too short to have the length, with one cut short behind it.             *)
Extras == {<<<<9, 36, 0, 0, 0, 0, 0, 9, 0>>, <<9, 33, 17, 1, 0, 1, 34, 2, 0>>, <<2, 5>>>>,
           <<<<7, 33, 17, 1, 0, 1, 34>>, <<9, 33, 17, 1, 0, 1, 34, 44>>>>}

(* One that fits what is declared, and one that does not.                  *)
ReportDescs == {<<5, 161>>, <<6, 0, 255>>}

(* None, and two of which one has a character of two UTF-16 units: libusb   *)
(* gives none, but buildStringsBlob provides for it.                       *)
Strings == {<<>>, <<65>>, <<66, 65537>>}
=============================================================================
