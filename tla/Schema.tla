------------------------------- MODULE Schema -------------------------------
(***************************************************************************)
(* The tables of the shop and the foreign keys between them: as the models *)
(* declare them, and as the migration creates and drops them.  PostgreSQL  *)
(* needs the parent of a key before the child, refuses to drop a parent    *)
(* before the child, and lets a deletion run along the cascading keys.     *)
(* The tests run on SQLite without PRAGMA foreign_keys, which checks none  *)
(* of this, and they compare tables, columns and indexes only.             *)
(***************************************************************************)
EXTENDS Naturals, Sequences

\* What becomes of the child's row when the row of the parent is deleted.
Cascade(child, parents) ==
    {[child |-> child, parent |-> p, ondelete |-> "CASCADE"] : p \in parents}

SetNull(child, parent) ==
    {[child |-> child, parent |-> parent, ondelete |-> "SET_NULL"]}

NoAction(child, parents) ==
    {[child |-> child, parent |-> p, ondelete |-> "NO_ACTION"] : p \in parents}

-----------------------------------------------------------------------------
(* The keys of the models, domain by domain.                               *)

Translation(child, owner) == Cascade(child, {owner, "locale"})

ProductKeys ==
    Translation("product_translation", "product")
        \union Cascade("product_variant", {"product"})
        \union Cascade("variant_price", {"product_variant"})
        \union NoAction("variant_price", {"currency"})

OptionKeys ==
    Cascade("product_option", {"product"})
        \union Translation("product_option_translation", "product_option")
        \union Cascade("option_value", {"product_option"})
        \union Translation("option_value_translation", "option_value")
        \union Cascade("variant_option_value", {"product_variant", "option_value"})

CategoryKeys ==
    SetNull("category", "category")
        \union Translation("category_translation", "category")
        \union Cascade("product_category", {"product", "category"})

StockKeys ==
    Cascade("inventory_item", {"product_variant"})
        \union Cascade("stock_movement", {"product_variant"})

CartKeys ==
    NoAction("cart", {"region", "currency"})
        \union Cascade("cart_line", {"cart", "product_variant"})

\* A line of an order has no key to the catalog, on purpose.
OrderKeys == Cascade("order_line", {"orders"}) \union Cascade("order_event", {"orders"})

RateKeys == Cascade("exchange_rate", {"currency"})

RegionKeys ==
    NoAction("region", {"currency"})
        \union Cascade("region_locale", {"region", "locale"})
        \union Cascade("region_payment_method", {"region"})

ModelKeys ==
    UNION {ProductKeys, OptionKeys, CategoryKeys, StockKeys, CartKeys,
           OrderKeys, RateKeys, RegionKeys}

-----------------------------------------------------------------------------
(* The migration: CREATE TABLE after CREATE TABLE, each with its keys, and *)
(* DROP TABLE after DROP TABLE.                                            *)

Table(name, keys) == [table |-> name, keys |-> keys]
Bare(name) == Table(name, {})

CreateReference ==
    <<Bare("admin_user"), Table("category", SetNull("category", "category")),
      Bare("currency"), Bare("locale"), Bare("media"), Bare("orders"),
      Bare("product"),
      Table("category_translation",
            Cascade("category_translation", {"category", "locale"})),
      Table("exchange_rate", Cascade("exchange_rate", {"currency"}))>>

CreateCatalog ==
    <<Table("order_event", Cascade("order_event", {"orders"})),
      Table("order_line", Cascade("order_line", {"orders"})),
      Table("product_category",
            Cascade("product_category", {"category", "product"})),
      Table("product_option", Cascade("product_option", {"product"})),
      Table("product_translation",
            Cascade("product_translation", {"locale", "product"})),
      Table("product_variant", Cascade("product_variant", {"product"})),
      Table("region", NoAction("region", {"currency"}))>>

MutantCreateShop ==
    <<Table("cart", NoAction("cart", {"currency", "region"})),
      Table("inventory_item", NoAction("inventory_item", {"product_variant"})),
      Table("option_value", Cascade("option_value", {"product_option"})),
      Table("product_option_translation",
            Cascade("product_option_translation", {"locale", "product_option"})),
      Table("region_locale", Cascade("region_locale", {"locale", "region"})),
      Table("region_payment_method", Cascade("region_payment_method", {"region"}))>>

CreateShop ==
    <<Table("cart", NoAction("cart", {"currency", "region"})),
      Table("inventory_item", Cascade("inventory_item", {"product_variant"})),
      Table("option_value", Cascade("option_value", {"product_option"})),
      Table("product_option_translation",
            Cascade("product_option_translation", {"locale", "product_option"})),
      Table("region_locale", Cascade("region_locale", {"locale", "region"})),
      Table("region_payment_method", Cascade("region_payment_method", {"region"}))>>

CreateLinks ==
    <<Table("stock_movement", Cascade("stock_movement", {"product_variant"})),
      Table("variant_price",
            Cascade("variant_price", {"product_variant"})
                \union NoAction("variant_price", {"currency"})),
      Table("cart_line", Cascade("cart_line", {"cart", "product_variant"})),
      Table("option_value_translation",
            Cascade("option_value_translation", {"locale", "option_value"})),
      Table("variant_option_value",
            Cascade("variant_option_value", {"option_value", "product_variant"}))>>

Creation == CreateReference \o CreateCatalog \o CreateShop \o CreateLinks

MigratedTables == {Creation[i].table : i \in DOMAIN Creation}
MigratedKeys == UNION {Creation[i].keys : i \in DOMAIN Creation}

DropOrder ==
    <<"variant_option_value", "option_value_translation", "cart_line",
      "variant_price", "stock_movement", "region_payment_method",
      "region_locale", "product_option_translation", "option_value",
      "inventory_item", "cart", "region", "product_variant",
      "product_translation", "product_option", "product_category",
      "order_line", "order_event", "exchange_rate", "category_translation",
      "product", "orders", "media", "locale", "currency", "category",
      "admin_user">>

\* Each table of the order has its parents before it (or is its own parent).
ParentsFirst(order) ==
    \A i \in DOMAIN order : \A key \in MigratedKeys :
        key.child = order[i] => \E j \in 1 .. i : order[j] = key.parent

CreatesInOrder == ParentsFirst([i \in DOMAIN Creation |-> Creation[i].table])

DropsInOrder ==
    ParentsFirst([i \in DOMAIN DropOrder |-> DropOrder[Len(DropOrder) + 1 - i]])

-----------------------------------------------------------------------------
(* What a deletion takes along.                                            *)

\* Some tables, and those that their cascading keys lead to.
Along(tables) ==
    tables \union {key.child : key \in {k \in MigratedKeys :
                                           /\ k.ondelete = "CASCADE"
                                           /\ k.parent \in tables}}

\* No chain of cascading keys is longer than four.
SweptBy(table) == Along(Along(Along(Along({table})))) \ {table}

SweepsAreWhole ==
    \A table \in MigratedTables :
        Along(SweptBy(table)) \subseteq SweptBy(table) \union {table}

\* The tables whose rows keep a row of a swept table from being deleted.
InTheWay(table) ==
    {key.child : key \in {k \in MigratedKeys :
                             /\ k.ondelete = "NO_ACTION"
                             /\ k.parent \in SweptBy(table) \union {table}}}
        \ SweptBy(table)

=============================================================================
