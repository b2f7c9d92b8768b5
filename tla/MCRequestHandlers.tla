-------------------------- MODULE MCRequestHandlers --------------------------
(* Documents: the bdb_databases.json of the repository, and what may become *)
(* of it in an editor.                                                      *)
EXTENDS RequestHandlers

Index(name, extractor) ==
    [class_name |-> "Secondary_database_config", name |-> name,
     filename |-> name \o ".sdb", key_extractor |-> extractor]

Records(name, indexes) ==
    [class_name |-> "Primary_database_config", name |-> name,
     filename |-> name \o ".db", secondary_databases |-> indexes]

Triplets(name) ==
    [class_name |-> "Primary_database_config", name |-> name,
     filename |-> name \o ".db", has_duplicates |-> "true"]

Document(databases) ==
    [class_name |-> "Bdb_databases_config", primary_databases |-> databases]

Account ==
    Records("account", <<Index("account_email", "get_account_email"),
                         Index("account_username", "get_account_username")>>)
Item ==
    Records("item", <<Index("item_name", "get_item_name"),
                      Index("item_cost", "get_item_cost")>>)
Order ==
    Records("order", <<Index("order_account_id", "get_order_account_id"),
                       Index("order_name", "get_order_name")>>)
ByItemId == Index("order_item_item_id", "get_order_item_item_id")
ByOrderId == Index("order_item_order_id", "get_order_item_order_id")
OrderItem == Records("order_item", <<ByItemId, ByOrderId>>)

Shipped ==
    <<Account, Triplets("account_username_triplets"), Item, Triplets("item_name_triplets"),
      Order, OrderItem, Triplets("order_name_triplets")>>

\* As it was before the index by item and the flag of the triplets were added.
Older ==
    [Shipped EXCEPT ![6] = Records("order_item", <<ByOrderId>>),
                    ![7] = Records("order_name_triplets", <<>>)]

\* A key extractor that the program does not know.
Misspelt ==
    [Shipped EXCEPT ![5].secondary_databases[1].key_extractor = "get_order_account"]

\* No order_item, and a second entry for the items without an index.
Edited ==
    [Shipped EXCEPT ![6] = [Item EXCEPT !.secondary_databases =
                               <<Index("item_name", "get_item_name"),
                                 [Index("item_name", "get_item_name") EXCEPT
                                     !.filename = "item_names.sdb"]>>]]

\* The items without their indexes and with the flag of the triplets.
Duplicates == [Shipped EXCEPT ![3] = Triplets("item")]

\* Refused.
Boolean == [Shipped EXCEPT ![2].has_duplicates = Wrong]
WrongClass == [Shipped EXCEPT ![6].secondary_databases[2].class_name = "Primary_database_config"]

MCDocuments == {Document(d) : d \in {Shipped, Older, Misspelt, Edited, Duplicates, Boolean, WrongClass}}

MCIndexOrder ==
    <<"account_email", "account_username", "item_cost", "item_name",
      "order_account_id", "order_item_item_id", "order_item_order_id", "order_name">>
=============================================================================
