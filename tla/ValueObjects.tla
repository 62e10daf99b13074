---------------------------- MODULE ValueObjects ----------------------------
(***************************************************************************)
(* What stands between the fields of a request for an address and its row: *)
(* the validation of the controller, the constructors of the value objects *)
(* and the columns of the table.  A field is told apart by what these tell *)
(* apart: a text that is not empty, the empty text, null, or absent.       *)
(***************************************************************************)

Fields == {"street", "number", "city", "state", "zipCode"}
Values == {"text", "empty", "null", "absent"}
Forms == [Fields -> Values]

(* AddAddressController.validate looks at the street alone.                *)
Validates(form) == form.street \notin {"empty", "absent"}

(* The constructors that read value.length: it throws on null and          *)
(* undefined, and so does the check that it is not 0.                      *)
HasLength(value) == value \notin {"null", "absent"}
Street(value) == HasLength(value) /\ value # "empty"
City(value) == HasLength(value) /\ value # "empty"
State(value) == HasLength(value) /\ value # "empty"
ZipCode(value) == HasLength(value) /\ value # "empty"

(* That of AddressNumber takes what it is given.                           *)
AddressNumber(value) == value \in Values

(* AddAddressCommand.of returns: no constructor throws.                    *)
CommandOf(form) ==
  /\ Street(form.street) /\ AddressNumber(form.number)
  /\ City(form.city) /\ State(form.state) /\ ZipCode(form.zipCode)

(* The columns of table addresses are NOT NULL.                            *)
Storable(form) == \A field \in Fields : HasLength(form[field])
=============================================================================
