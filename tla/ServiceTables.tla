---------------------------- MODULE ServiceTables ----------------------------
(***************************************************************************)
(* The tables of the ten newer services, as their units of work see them:  *)
(* how the rows of each are written when a request commits, and which      *)
(* lookups a request may read them by.  A store lists its tables in the    *)
(* order in which they are flushed.                                        *)
(*                                                                         *)
(* Of a table the model keeps its kind and its lookups: "own" are those    *)
(* that answer with what the request has saved itself; "past" are those    *)
(* that answer with the row in storage, even when the request has saved    *)
(* another copy of it, or one that no longer fits the search.  Columns,    *)
(* mapping and order of results are left out.                              *)
(***************************************************************************)

\* Added when new; when changed, only over the version before its own.
Checked(own, past) == [kind |-> "checked", own |-> own, past |-> past]

\* As checked; but a changed row that storage does not have is added.
Healed(own, past) == [kind |-> "healed", own |-> own, past |-> past]

\* Never changed once added.
Added(own, past) == [kind |-> "added", own |-> own, past |-> past]

\* Added when new, replaced when not, whatever its version.
Replaced(own, past) == [kind |-> "replaced", own |-> own, past |-> past]

\* Replaced if storage has the row at the commit, added if not.
Merged(own, past) == [kind |-> "merged", own |-> own, past |-> past]

(* What the services keep of their events *)
Outbox == Added({"get_by_event_id"}, {"list_pending", "list_for_aggregate"})
Inbox == Replaced({"find"}, {})

(* Claims *)
ClaimsClaims == Checked(
    {"get", "find_by_reference"},
    {"find_open_for_parcel", "list_for_parcel",
     "list_for_principal", "list_for_operations_view", "list_awaiting_operations"})
ClaimsMessages == Added({"list_for_claim", "count_for_claim"}, {})
ClaimsIncidents == Checked(
    {"get", "find_by_reference"},
    {"list_for_driver", "list_open"})
ClaimsStore ==
    <<ClaimsClaims, ClaimsMessages, ClaimsIncidents, Outbox, Inbox>>

(* Customer *)
CustomerProfiles == Checked({}, {"get"})
CustomerLegal == Added({"list_for_principal", "find"}, {})
CustomerContacts == Checked({"get"}, {"list_for_owner"})
CustomerAddresses == Checked({"get"}, {"list_for_owner", "find_default"})
CustomerStore ==
    <<CustomerProfiles, CustomerLegal, CustomerContacts, CustomerAddresses>>

(* Delivery *)
DeliveryManifests == Checked({"get"}, {"find_open_for_driver"})
DeliveryStops == Checked(
    {"get", "find_by_tracking_code"},
    {"find_live_by_tracking_code", "list_for_manifest", "list_for_driver"})
DeliveryVerifications == Added({"list_for_stop"}, {})
DeliveryPayments == Added({"find_for_stop"}, {})
DeliveryPhotos == Added({"list_for_stop"}, {})
DeliveryFailedAttempts == Checked(
    {"get"},
    {"list_awaiting_operations", "list_for_stop"})
DeliveryPreferences == Checked({"find_preference"}, {})
DeliveryReports == Added({"list_reports"}, {})
DeliveryRatings == Checked({"find_for_tracking_code"}, {"list_for_courier"})
DeliveryStore ==
    <<DeliveryManifests, DeliveryStops, DeliveryVerifications,
      DeliveryPayments, DeliveryPhotos, DeliveryFailedAttempts,
      DeliveryPreferences, DeliveryReports, DeliveryRatings, Outbox, Inbox>>

(* Finance *)
FinanceLedger == Added(
    {"get", "find_by_idempotency_key", "entries_for_account"},
    {"entries_for_subject"})
FinanceDriverAccounts == Checked({"get", "find_for_driver"}, {"list_all"})
FinanceMerchantAccounts == Checked({"find_for_merchant"}, {})
FinanceCollections == Checked(
    {"get", "find_by_tracking_code", "list_unsettled_for_driver"},
    {})
FinanceDeposits == Checked(
    {"get", "find_by_reference", "list_for_driver"},
    {"list_pending_verification"})
FinancePayouts == Checked({"get", "list_for_merchant"}, {"list_open"})
FinanceReconciliations == Checked(
    {"get"},
    {"find_for_driver_day", "list_unresolved", "list_unresolved_for_driver"})
FinanceStore ==
    <<FinanceLedger, FinanceDriverAccounts, FinanceMerchantAccounts,
      FinanceCollections, FinanceDeposits, FinancePayouts,
      FinanceReconciliations, Outbox, Inbox>>

(* Hub *)
HubHubs == Checked({"get"}, {"find_by_code", "list_all"})
HubDropOffs == Checked(
    {"get", "find_by_tracking_code"},
    {"find_by_label_code", "list_open_for_hub"})
HubPresences == Checked(
    {"get", "find_in_hub"},
    {"list_for_hub", "list_for_consignment"})
HubConsignments == Checked({"get"}, {"find_by_seal_code", "list_for_hub"})
HubLinehauls == Checked({"get", "find_for_consignment"}, {"list_for_hub"})
HubSealChecks == Added({}, {"list_for_consignment"})
HubPositions == Added({}, {"list_for_linehaul"})
HubStore ==
    <<HubHubs, HubDropOffs, HubPresences, HubConsignments, HubLinehauls,
      HubSealChecks, HubPositions, Outbox, Inbox>>

(* Identity *)
IdentityPrincipals == Checked({}, {"get", "find_by_phone_hash"})
IdentityChallenges == Checked(
    {},
    {"get", "count_issued_since", "list_open_for_phone"})
IdentitySessions == Checked(
    {},
    {"get", "find_by_token_hash", "list_for_principal"})
IdentityGrants == Replaced({}, {"get", "list_for_principal", "find_active"})
IdentityStore ==
    <<IdentityPrincipals, IdentityChallenges, IdentitySessions,
      IdentityGrants>>

(* Merchant *)
MerchantApplications == Checked(
    {"get"},
    {"find_open_for_applicant", "list_for_applicant", "find_by_reference"})
MerchantMerchants == Checked(
    {"get", "find_by_code"},
    {"find_by_owner", "list_for_owner"})
MerchantPolicies == Checked({"get"}, {})
MerchantStores == Checked(
    {"get"},
    {"list_for_merchant", "find_default_pickup"})
MerchantMemberships == Checked(
    {"get"},
    {"list_for_merchant", "list_for_principal",
     "find_live_for_phone", "list_pending_for_phone"})
MerchantLabelStock == Checked({"get"}, {"list_for_merchant"})
MerchantPrinters == Checked({"get"}, {"list_for_merchant"})
MerchantCategories == Checked({"get_category"}, {"list_categories"})
MerchantProducts == Checked(
    {"get_product"},
    {"list_products", "count_products_in_category"})
MerchantStore ==
    <<MerchantApplications, MerchantMerchants, MerchantPolicies,
      MerchantStores, MerchantMemberships, MerchantLabelStock,
      MerchantPrinters, MerchantCategories, MerchantProducts, Outbox, Inbox>>

(* Notification *)
NotificationRecipients == Checked({"get"}, {"find_for_principal"})
NotificationPreferences == Checked({"find"}, {"list_for_principal"})
NotificationMessages == Checked(
    {"get", "find_by_dedupe_key"},
    {"list_pending", "list_for_tracking_code"})
NotificationCentre == Checked({"get"}, {"list_for_principal"})
NotificationStore ==
    <<NotificationRecipients, NotificationPreferences, NotificationMessages,
      NotificationCentre, Inbox>>

(* Ordering *)
OrderingOrders == Checked({"get"}, {"list_for_principal"})
OrderingRequests == Checked(
    {"get", "find_by_tracking_code", "find_by_label_code"},
    {"list_for_order", "list_for_principal", "list_for_merchant"})
OrderingGoods == Merged({"get"}, {"list_active"})
OrderingTariffs == Checked({}, {"find_rate", "list_rates"})
OrderingStore ==
    <<OrderingOrders, OrderingRequests, OrderingGoods, OrderingTariffs, Outbox,
      Inbox>>

(* Workforce *)
WorkforceApplications == Healed(
    {"get"},
    {"find_open_for_principal", "find_by_reference"})
WorkforceDrivers == Healed({"get", "find_by_principal"}, {})
WorkforcePatterns == Healed({}, {"current_for", "list_for_driver"})
WorkforceAttendance == Healed({"find"}, {"list_for_driver"})
WorkforceBlocks == Healed({"get"}, {"find_active", "list_active"})
WorkforceLeave == Healed(
    {"get"},
    {"list_for_driver", "list_pending", "find_covering"})
WorkforceStore ==
    <<WorkforceApplications, WorkforceDrivers, WorkforcePatterns,
      WorkforceAttendance, WorkforceBlocks, WorkforceLeave, Inbox>>

-----------------------------------------------------------------------------
Store == [claims |-> ClaimsStore, customer |-> CustomerStore,
          delivery |-> DeliveryStore, finance |-> FinanceStore,
          hub |-> HubStore, identity |-> IdentityStore,
          merchant |-> MerchantStore, notification |-> NotificationStore,
          ordering |-> OrderingStore, workforce |-> WorkforceStore]
=============================================================================
