--------------------------- MODULE MCTripContent ---------------------------
(***************************************************************************)
(* Seven kinds of load, so that the instance is their sum and not their    *)
(* product.                                                                *)
(***************************************************************************)
EXTENDS TripContent

CONSTANTS Ann, Bob, Here, There

Load(ops, slots, rows) == [ops |-> ops, slots |-> slots, rows |-> rows, phones |-> {}]

Alone == Load({"create_task", "assign", "delete_item",
               "join", "depart", "close_account"}, 1, 4)
Tasks == Load({"create_task", "assign", "delete_item", "depart", "delete_trip"}, 2, 2)
Guest == Load({"create_task", "depart", "join", "close_account"}, 2, 2)
Plan  == Load({"create_event", "create_task", "edit_item", "complete", "reopen",
               "delete_item", "archive", "delete_trip"}, 2, 1)
Lists == Load({"create_list", "delete_list", "add_entry", "delete_entry", "check", "uncheck",
               "delete_trip"}, 2, 3)
Pins  == Load({"create_pin", "update_pin", "delete_pin", "archive", "delete_trip"}, 2, 2)
Map   == [Load({"share", "unshare", "depart", "join", "close_account", "delete_trip"}, 2, 0)
            EXCEPT !.phones = {Bob}]

AllLoads == {Alone, Tasks, Guest, Plan, Lists, Pins, Map}
OnlyAlone == {Alone}
==============================================================================
