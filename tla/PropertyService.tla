-------------------------- MODULE PropertyService --------------------------
(***************************************************************************)
(* PropertyService and PropertyRepository: listings, their status and      *)
(* their agents.                                                           *)
(***************************************************************************)
EXTENDS DirectoryTables

PropertyStatus ==
  {"AVAILABLE", "UNDER_NEGOTIATION", "SOLD", "RENTED", "ON_HOLD", "WITHDRAWN"}
ListingType == {"SALE", "RENT"}

PropertyRow ==
  [code: Codes, listing: ListingType, status: PropertyStatus,
   agent: UserIds \cup {Null}, active: BOOLEAN]

PropertyOps ==
  {"create_property", "update_property", "update_status", "assign_property",
   "soft_delete_property", "reactivate_property"}

\* A new property has no code, or the one its client supplies.
NewProperty(row) ==
  \E code \in Codes :
    [row EXCEPT !.code = IF row.code = Null THEN code ELSE row.code] \in PropertyRow

\* PropertyCreate, PropertyUpdate, PropertyStatusUpdate and PropertyAssignment.
ValidPropertyRequest(r) ==
  /\ r.id \in PropertyIds
  /\ r.op = "create_property" => NewProperty(r.row) /\ r.row.active
  /\ r.op = "update_property" => DOMAIN r.set \subseteq {"listing", "active"}
  /\ r.op = "update_status" => r.status \in PropertyStatus
  /\ r.op = "assign_property" => r.agent # Null

TerminalPropertyStatus == {"SOLD", "RENTED"}

\* INVALID_STATUS_FOR_LISTING.
Compatible(listing, status) ==
  /\ listing = "SALE" => status # "RENTED"
  /\ listing = "RENT" => status # "SOLD"

CreateProperty(r) ==
  Handler(Compatible(r.row.listing, r.row.status),
          IfGiven(r.row.agent, Active("users", r.row.agent))
            \o <<IF r.row.code = Null THEN Generate ELSE Free("properties", "code", r.row.code)>>,
          "insert", r.row)

ResultingListing(r, row) ==
  IF "listing" \in DOMAIN r.set THEN r.set.listing ELSE row.listing

\* Mutant: the listing type is validated as loaded.
UpdateProperty_LoadedListing(r, row) ==
  Handler(Compatible(row.listing, row.status), <<>>, "orm", r.set)

\* A sold property can be listed again, an inactive one updated.
UpdateProperty(r, row) ==
  Handler(Compatible(ResultingListing(r, row), row.status), <<>>, "orm", r.set)

UpdateStatus(r, row) ==
  Handler(row.status \notin TerminalPropertyStatus /\ Compatible(row.listing, r.status),
          <<>>, "orm", [status |-> r.status])

AssignProperty(r) ==
  Handler(TRUE, <<Active("users", r.agent)>>, "orm", [agent |-> r.agent])

SoftDeleteProperty(row) == Handler(row.active, <<>>, "orm", [active |-> FALSE])
ReactivateProperty(row) == Handler(~row.active, <<>>, "orm", [active |-> TRUE])

PropertyHandler(r, row) ==
  CASE r.op = "create_property"      -> CreateProperty(r)
    [] r.op = "update_property"      -> UpdateProperty(r, row)
    [] r.op = "update_status"        -> UpdateStatus(r, row)
    [] r.op = "assign_property"      -> AssignProperty(r)
    [] r.op = "soft_delete_property" -> SoftDeleteProperty(row)
    [] r.op = "reactivate_property"  -> ReactivateProperty(row)
=============================================================================
