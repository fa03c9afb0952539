------------------------------ MODULE Migrations ------------------------------
(***************************************************************************)
(* The migrations of src/database/migrations and the scripts that run them *)
(* (scripts/run-migrations.ts, run-seo-migrations.ts, revert-migration.ts).*)
(* `transaction: none': every statement commits alone, a migration is      *)
(* recorded after its last one, and one that stopped before that starts    *)
(* again from its first.  The first four, which make the tables the others *)
(* change, are behind us (LegacyImport is about them).                     *)
(*                                                                         *)
(* The schema is a set of facts <<table, what>>, the table itself being    *)
(* <<table, "">>.  What one statement does is one fact, however many       *)
(* columns it names, and a row of statements that each may be repeated is  *)
(* one statement.                                                          *)
(***************************************************************************)
EXTENDS Naturals, Sequences, FiniteSets, SequencesExt

CONSTANTS
  Varying,                        \* facts a database may start with or without
  Releases,                       \* the last migration of each release
  MaxCrashes, MaxReverts          \* bounds of the model

VARIABLES
  schema,       \* the facts that hold
  recorded,     \* the table `migrations': indexes of Migrations, in the order of their ids
  run,          \* the process: [dir, m, todo, list]
  dead,         \* <<dir, m>> that stopped at something that is there, or gone, already
  half,         \* the recorded migrations whose down has begun
  crashes, reverts

schemaVars == <<schema, recorded, run, dead, half, crashes, reverts>>

-----------------------------------------------------------------------------
(* Statements *)

T(table) == <<table, "">>

\* A statement fails unless the facts it needs hold and those it adds for the
\* first time do not.
Stmt(need, free, minus, plus) ==
  [need |-> need, free |-> free, minus |-> minus, plus |-> plus, yes |-> <<>>, no |-> <<>>]
Tables(F) == {T(f[1]) : f \in F} \ F

Add(F)   == Stmt(Tables(F), F, {}, F)      \* ALTER TABLE ADD, CREATE TABLE, plain INSERT
Put(F)   == Stmt(Tables(F), {}, {}, F)     \* with a guard; MODIFY, UPDATE, INSERT IGNORE
Drop(F)  == Stmt(F, {}, F, {})
Clear(F) == Stmt({}, {}, F, {})            \* with a guard; UPDATE, DELETE
From(tables, s) == [s EXCEPT !.need = @ \union {T(t) : t \in tables}]

\* A guard that is read once and decides on the statements after it.
If(F, yes, no) == [Stmt({}, {}, F, {}) EXCEPT !.yes = yes, !.no = no]
IsIf(s) == s.yes # <<>> \/ s.no # <<>>

Both(up, down) == [up |-> up, down |-> down]
Column(f) == Both(<<Put({f})>>, <<Clear({f})>>)         \* guarded both ways
Kept(F) == Both(<<Put(F)>>, <<>>)                       \* what down preserves

-----------------------------------------------------------------------------
(* The migrations *)

AddListingPageSeoTable ==
  Both(<<Add({T("listing_page_seo")})>>, <<Clear({T("listing_page_seo")})>>)

AddPropertySeoSlugColumns ==
  LET c == <<"properties", "property_code, slug">> i == <<"properties", "idx_properties_slug">>
  IN Both(<<Put({c}), Put({<<"properties", "slugs">>}), Put({i})>>,
          <<Clear({i}), Clear({c, <<"properties", "slugs">>})>>)

UpdatePropertySeoSlugs == Kept({<<"properties", "slugs of titles">>})

SeedAdminUser == Column(<<"users", "admin and staff">>)

LegacyNames == <<"sublocations", "sublocation">>
Copied == <<"sublocations", "legacy rows">>
Coimbatore == <<"cities", "Coimbatore">>
OldSublocations == T("sublocations_legacy_before_city_mapping")

\* hasLegacyName is read before the old table is renamed.
AddManagedCitiesAndSublocations ==
  Both(<<Put({T("cities")}),
         If({LegacyNames},
            <<Put({Coimbatore}), Clear({OldSublocations}),
              Stmt({LegacyNames}, {}, {T("sublocations")}, {OldSublocations}),
              Put({T("sublocations")}),
              From({OldSublocations[1]}, Put({Copied})), Drop({OldSublocations})>>,
            <<Put({T("sublocations")})>>),
         Put({T("property_locations")}), Put({<<"cities", "uq_cities_name_state_country">>})>>,
       <<Clear({T("property_locations")}), Clear({T("sublocations")}), Clear({T("cities")})>>)

Meta(c) == <<"properties", c>>

AddPropertySeoTable ==
  Both(<<Add({T("property_seo")}), Add({<<"property_seo", "rows">>}),
         Drop({Meta("meta_title")}), Drop({Meta("meta_description")}), Drop({Meta("meta_keywords")})>>,
       <<Add({Meta("meta_title")}), Add({Meta("meta_description")}), Add({Meta("meta_keywords")}),
         From({"property_seo"}, Put({Meta("metadata")})), Clear({T("property_seo")})>>)

AddCrmOnlyPropertyFields ==
  LET p == <<"properties", "CRM fields">> d == <<"property_details", "CRM fields">>
  IN Both(<<Add({p}), Add({d})>>, <<Drop({d}), Drop({p})>>)

AddProjectCodeColumn ==
  LET c == <<"projects", "project_code">> r == <<"projects", "codes">>
  IN Both(<<Add({c}), Put({r})>>, <<Drop({c, r})>>)

ProjectRootCustomSlug == Column(<<"projects", "root slugs">>)

AddProjectCodeToCanonicalSlug == Column(<<"projects", "slugs with codes">>)

AddParkingTypeAndFloorFacing ==
  LET c == <<"property_details", "parking_type, floor_facing">> IN Both(<<Add({c})>>, <<Drop({c})>>)

MakeFurnishedNullable == Column(<<"property_details", "furnished NULL">>)

CreateFurnishingItems ==
  Both(<<Put({T("furnishing_items")}), From({"furnishing_items"}, Put({T("property_furnishings")}))>>,
       <<Clear({T("property_furnishings")}), Clear({T("furnishing_items")})>>)

CreateUtilities == Column(T("utilities"))

AddProjectApartmentVillaDetails ==
  LET p == <<"projects", "apartment and villa details">> u == <<"project_units", "villa details">>
  IN Both(<<Add({p}), Add({T("project_faqs")}),
            From({"furnishing_items"}, Add({T("project_unit_furnishings")})),
            Add({T("project_amenities")}), Add({u})>>,
          <<Drop({u}), Drop({T("project_unit_furnishings")}), Drop({T("project_faqs")}),
            Drop({T("project_amenities")}), Drop({p})>>)

AddProjectBookedNewLaunchAndAvailability ==
  LET u == <<"project_units", "booked">> v == <<"property_units", "booked">> p == <<"projects", "booked, new_launch, plot">>
  IN Both(<<Put({u}), Put({v}), Put({p})>>, <<Clear({p}), Clear({v}), Clear({u})>>)

AddBareshellFurnishedStatus ==
  LET u == <<"project_units", "bareshell">> v == <<"property_units", "bareshell">>
  IN Both(<<Put({u}), Put({v})>>, <<Clear({v}), Clear({u})>>)

UpdateProjectCodeScheme ==
  LET c == <<"projects", "short codes">> s == <<"projects", "slugs with short codes">>
  IN Both(<<Put({c}), Put({s})>>, <<Clear({c}), Clear({s})>>)

AddMobileCoverImage ==
  LET c == <<"projects", "mobile_cover_image_url">> IN Both(<<Put({c})>>, <<Drop({c})>>)

AddProjectVideoUrls == LET c == <<"projects", "video_urls">> IN Both(<<Put({c})>>, <<Drop({c})>>)

CreateBuildersTable ==
  LET c == <<"projects", "builder_id">> k == <<"projects", "fk_projects_builder">>
  IN Both(<<Put({T("builders")}), Put({c}), From({"builders"}, Put({k}))>>,
          <<Clear({k}), Clear({c}), Clear({T("builders")})>>)

AddIndustrialPortingFields ==
  LET p == <<"properties", "legacy source">> i == <<"properties", "uq_properties_legacy_source">>
      d == <<"property_details", "industrial fields">>
  IN Both(<<Put({p}), Put({i}), Put({d})>>, <<Drop({i}), Drop({d}), Drop({p})>>)

AddCommercialPortingFields ==
  LET d == <<"property_details", "commercial fields">> IN Both(<<Put({d})>>, <<Drop({d})>>)

\* Faulty variant: one guard for the column and for what is copied to it.
AddProjectVideosOnce ==
  LET c == <<"projects", "videos">> r == <<"projects", "videos of the urls">>
  IN Both(<<If({c}, <<>>, <<Add({c}), Put({r})>>)>>, <<Drop({c, r})>>)

AddProjectVideos ==
  LET c == <<"projects", "videos">> r == <<"projects", "videos of the urls">>
  IN Both(<<Put({c}), Put({r})>>, <<Drop({c, r})>>)

ChangeProjectUnitFloorNoToVarchar == Column(<<"project_units", "floor_no varchar">>)

OwnerPostIntake ==
  LET s == <<"properties", "source">>
  IN Both(<<Put({T("property_drafts")}), Put({s})>>, <<Drop({s}), Clear({T("property_drafts")})>>)

AddHigherBhkUnitTypes ==
  LET u == <<"project_units", "higher types">> v == <<"property_units", "higher types">>
  IN Both(<<Put({u}), Put({v})>>, <<Clear({u}), Clear({v})>>)

\* Faulty variant: without looking whether the column is there.
AddProjectRevisionBlindly == LET c == <<"projects", "revision">> IN Both(<<Add({c})>>, <<Drop({c})>>)

AddProjectRevision == Column(<<"projects", "revision">>)

AddProjectUnitFloorPlans == Column(<<"project_units", "floor_plans">>)

ExtendAdPlacements ==
  LET p == <<"ads", "offers, mega_menu">> m == <<"ads", "mobile_image_key NULL">> a == <<"ads", "audience">>
  IN Both(<<Put({p}), Put({m}), Put({a})>>, <<Clear({a}), Clear({m}), Clear({p})>>)

AddProjectFaqSection == Column(<<"project_faqs", "section">>)

Nullable == <<"leads", "property_id NULL">>
PropertyKey == <<"leads", "fk_leads_property">>

\* The names of the keys are read before they are dropped, and only as long as
\* the column is not nullable.
AddProjectEnquiryToLeads ==
  LET c == <<"leads", "project_id">> i == <<"leads", "idx_leads_project_id">> k == <<"leads", "fk_leads_project">>
  IN Both(<<Put({c}),
            If({Nullable}, <<>>,
               <<Clear({PropertyKey}), Put({Nullable}), Add({PropertyKey})>>),
            Put({i}), Put({k})>>,
          <<Clear({k}), Clear({i}), Clear({c})>>)

AddProjectFieldRevisions == Column(<<"projects", "field_revisions">>)

CreateShowcaseItems == Column(T("showcase_items"))

CreateSavedListings == Column(T("saved_listings"))

Inventory == <<"seo_listing_pages", "chk_listing_inventory">>

SeoCommandCenter ==
  Both(<<Put({T("seo_configs")}),
         If({T("seo_listing_pages")}, <<>>,
            <<From({"seo_configs", "cities", "sublocations"}, Add({T("seo_listing_pages"), Inventory}))>>),
         Put({T("seo_redirects")}),
         From({"property_seo", "project_seo"}, Put({<<"seo_configs", "sections">>})),
         From({"listing_page_seo"}, Put({<<"seo_configs", "listings">>})),
         From({"seo_metadata"}, Put({<<"seo_configs", "metadata">>})),
         Put({<<"seo_configs", "paths of properties and projects">>}),
         Put({<<"seo_configs", "templates, pages and site">>})>>,
       <<Clear({T("seo_redirects")}), Clear({T("seo_listing_pages")}), Clear({T("seo_configs")})>>)

DropCheck == If({Inventory}, <<Drop({Inventory})>>, <<>>)

SeoSaleRentTemplates ==
  LET r == <<"seo_redirects", "of merged rules">> m == <<"seo_listing_pages", "merged rules">>
      e == <<"seo_listing_pages", "buy, rent">>
  IN Both(<<Put({r}), Put({m}), DropCheck, Put({e}), Add({Inventory}), Put({<<"seo_configs", "sale and rent">>})>>, <<>>)

SeoFieldProvisioning ==
  LET s == <<"seo_listing_pages", "show_live_market_snapshot">>
  IN Both(<<Put({s}), DropCheck, Add({Inventory}),
            Put({<<"seo_configs", "default sections">>}), Put({<<"seo_configs", "nri-services">>})>>,
          <<Clear({s})>>)

CanonicalType == <<"seo_configs", "canonical_type">>
Customs == <<"seo_configs", "custom canonicals">>

SeoCanonicalType ==
  Both(<<If({CanonicalType}, <<>>, <<Add({CanonicalType}), Put({Customs})>>)>>,
       <<Clear({CanonicalType, Customs})>>)

PropertyTypeSeoTemplates == Kept({<<"seo_configs", "templates of types">>})

SeoAuditRemediation ==
  Both(<<Put({T("seo_config_versions")}), Put({<<"seo_configs", "repairs">>}), Put({<<"seo_configs", "calculators">>})>>, <<>>)

AddArchivedPropertyStatus ==
  LET e == <<"properties", "archived">> r == <<"properties", "archived rows">>
  IN Both(<<Put({e}), Put({r})>>, <<Clear({r}), Clear({e})>>)

CreateBlogPosts == Kept({T("blog_posts")})

Unsafe == <<"properties", "an unsafe slug">>
NewPath == <<"seo_configs", "sanitised path">>
OldPath == <<"seo_redirects", "from the unsafe path">>

\* The rows whose slug is unsafe are read first; here there is one.
SanitizePropertySlugs ==
  LET d == <<"seo_redirects", "to the sanitised path">>
  IN Both(<<If({Unsafe}, <<Clear({Unsafe}), Put({NewPath}), Put({d}), Put({OldPath})>>, <<>>)>>,
          <<If({OldPath}, <<Put({Unsafe}), Clear({NewPath}), Clear({d})>>, <<>>), Clear({OldPath})>>)

AddBlogKeywords == Kept({<<"blog_posts", "meta_keywords">>})

AddInvestmentPropertyType == Column(<<"properties", "investment_property">>)

AddPgServiceApartmentType == Column(<<"properties", "pg_service_apartment">>)

AddPropertyPricePerSqft == Kept({<<"properties", "price_per_sqft">>})

PropertySpecificationRefinements == Kept({<<"property_details", "specifications">>})

IndustrialLandAndFarmHouse ==
  Both(<<Put({<<"properties", "farm_house">>}), Put({<<"properties", "exact rates">>}),
         Put({<<"property_details", "texts">>}), Put({<<"property_details", "industrial land">>})>>, <<>>)

CommercialRentalSpecialPurpose == Kept({<<"property_details", "special_purpose">>})

PropertyCurationTwo ==
  Both(<<Put({<<"properties", "contact_details">>}), Put({<<"property_details", "curation_details">>})>>, <<>>)

CommercialGeneralAreaMapping == Kept({<<"property_details", "commercial areas">>})

LegacyIndividualBathrooms == Kept({<<"property_details", "individual bathrooms">>})

PropertyUploadAttribution ==
  Both(<<Put({<<"properties", "uploaded_by_crm_user_id">>}), Put({<<"properties", "idx_properties_uploaded_date">>}),
         Put({<<"properties", "idx_properties_upload_date">>})>>, <<>>)

\* In the order of their timestamps.
Migrations == <<
  AddListingPageSeoTable, AddPropertySeoSlugColumns, UpdatePropertySeoSlugs, SeedAdminUser,
  AddManagedCitiesAndSublocations, AddPropertySeoTable, AddCrmOnlyPropertyFields, AddProjectCodeColumn,
  ProjectRootCustomSlug, AddProjectCodeToCanonicalSlug, AddParkingTypeAndFloorFacing, MakeFurnishedNullable,
  CreateFurnishingItems, CreateUtilities, AddProjectApartmentVillaDetails,
  AddProjectBookedNewLaunchAndAvailability, AddBareshellFurnishedStatus, UpdateProjectCodeScheme,
  AddMobileCoverImage, AddProjectVideoUrls, CreateBuildersTable, AddIndustrialPortingFields,
  AddCommercialPortingFields, AddProjectVideos, ChangeProjectUnitFloorNoToVarchar, OwnerPostIntake,
  AddHigherBhkUnitTypes, AddProjectRevision, AddProjectUnitFloorPlans, ExtendAdPlacements,
  AddProjectFaqSection, AddProjectEnquiryToLeads, AddProjectFieldRevisions, CreateShowcaseItems,
  CreateSavedListings, SeoCommandCenter, SeoSaleRentTemplates, SeoFieldProvisioning, SeoCanonicalType,
  PropertyTypeSeoTemplates, SeoAuditRemediation, AddArchivedPropertyStatus, CreateBlogPosts,
  SanitizePropertySlugs, AddBlogKeywords, AddInvestmentPropertyType, AddPgServiceApartmentType,
  AddPropertyPricePerSqft, PropertySpecificationRefinements, IndustrialLandAndFarmHouse,
  CommercialRentalSpecialPurpose, PropertyCurationTwo, CommercialGeneralAreaMapping,
  LegacyIndividualBathrooms, PropertyUploadAttribution >>

Seo == {m \in DOMAIN Migrations :
          Migrations[m] \in {SeoCommandCenter, SeoSaleRentTemplates, SeoFieldProvisioning, SeoCanonicalType,
                             PropertyTypeSeoTemplates, SeoAuditRemediation, SanitizePropertySlugs}}

-----------------------------------------------------------------------------
(* The scripts *)

\* The tables of the unified schema, and those that were never migrated.
Base ==
  {T(t) : t \in {"properties", "property_details", "property_units", "projects", "project_units", "ads",
                 "leads", "users", "amenities", "project_seo", "seo_metadata", "sublocations"}}
  \union {Meta("meta_title"), Meta("meta_description"), Meta("meta_keywords"), LegacyNames, Unsafe}

NoRun == [dir |-> "idle", m |-> 0, todo |-> <<>>, list |-> {}]

SchemaInit ==
  /\ \E F \in SUBSET Varying : schema = Base \union F
  /\ recorded = <<>> /\ run = NoRun
  /\ dead = {} /\ half = {} /\ crashes = 0 /\ reverts = 0

Pending(list) == list \ ToSet(recorded)
Up(m, list) == [dir |-> "up", m |-> m, todo |-> Migrations[m].up, list |-> list]

\* A release knows the migrations up to one of them; the SEO script knows seven.
Start ==
  /\ run = NoRun
  /\ \E list \in {1..last : last \in Releases} \union {Seo} :
       /\ Pending(list) # {}
       /\ run' = Up(Min(Pending(list)), list)
  /\ UNCHANGED <<schema, recorded, dead, half, crashes, reverts>>

Revert ==
  /\ run = NoRun /\ recorded # <<>> /\ reverts < MaxReverts
  /\ run' = [dir |-> "down", m |-> Last(recorded), todo |-> Migrations[Last(recorded)].down, list |-> {}]
  /\ reverts' = reverts + 1 /\ half' = half \union {Last(recorded)}
  /\ UNCHANGED <<schema, recorded, dead, crashes>>

\* A table that goes takes its columns, keys and rows with it.
Without(facts, F) == {f \in facts : f \notin F /\ T(f[1]) \notin F}

Runs(s) == s.need \subseteq schema /\ s.free \intersect schema = {}

Step ==
  /\ run.todo # <<>> /\ LET s == Head(run.todo) IN
       \/ /\ IsIf(s)
          /\ run' = [run EXCEPT !.todo = (IF s.minus \subseteq schema THEN s.yes ELSE s.no) \o Tail(run.todo)]
          /\ UNCHANGED schema
       \/ /\ ~IsIf(s) /\ Runs(s)
          /\ schema' = Without(schema, s.minus) \union s.plus
          /\ run' = [run EXCEPT !.todo = Tail(run.todo)]
  /\ UNCHANGED <<recorded, dead, half, crashes, reverts>>

Stopped ==
  /\ run' = NoRun
  /\ UNCHANGED <<schema, recorded, half, reverts>>

\* A statement that fails ends the script.
Fail ==
  /\ run.todo # <<>> /\ LET s == Head(run.todo) IN
       /\ ~IsIf(s) /\ ~Runs(s)
       /\ dead' = IF s.free \intersect schema # {} \/ ~(s.minus \subseteq schema)
                  THEN dead \union {<<run.dir, run.m>>} ELSE dead
  /\ Stopped /\ UNCHANGED crashes

Crash ==
  /\ run # NoRun /\ crashes < MaxCrashes
  /\ crashes' = crashes + 1
  /\ Stopped /\ UNCHANGED dead

Record ==
  /\ run.dir = "up" /\ run.todo = <<>>
  /\ recorded' = Append(recorded, run.m)
  /\ run' = IF Pending(run.list) = {run.m} THEN NoRun
            ELSE Up(Min(Pending(run.list) \ {run.m}), run.list)
  /\ UNCHANGED <<schema, dead, half, crashes, reverts>>

Unrecord ==
  /\ run.dir = "down" /\ run.todo = <<>>
  /\ recorded' = Front(recorded)
  /\ half' = half \ {run.m}
  /\ run' = NoRun
  /\ UNCHANGED <<schema, dead, crashes, reverts>>

SchemaNext == Start \/ Revert \/ Step \/ Fail \/ Crash \/ Record \/ Unrecord

SchemaSpec == SchemaInit /\ [][SchemaNext]_schemaVars

-----------------------------------------------------------------------------
(* Properties *)

Statements(todo) ==
  ToSet(todo) \union UNION {ToSet(s.yes) \union ToSet(s.no) : s \in ToSet(todo)}
Plus(todo) == UNION {s.plus : s \in Statements(todo)}
Minus(todo) == UNION {s.minus : s \in {t \in Statements(todo) : ~IsIf(t)}}

\* A database starts without what the migrations add, but for the property key,
\* and where it varies, in the tables it has.
MigrationsAssumption ==
  /\ Releases \subseteq DOMAIN Migrations
  /\ \A f \in Varying : T(f[1]) \in Base
  /\ \A m \in DOMAIN Migrations : Plus(Migrations[m].up) \intersect Varying \subseteq {PropertyKey}

\* What migration m leaves and no later one takes away.
Lasting ==
  [m \in DOMAIN Migrations |->
     (Plus(Migrations[m].up) \ {OldSublocations})
       \ UNION {Minus(Migrations[n].up) : n \in {k \in DOMAIN Migrations : k > m}}]

\* What a guard that reads the result of an earlier statement can leave
\* undone for good when the process dies in between: the rows of the renamed
\* sublocations and their city, the property key of the leads, the custom canonicals and
\* the redirects from the slugs that were unsafe.
Losable ==
  {Copied, Coimbatore, PropertyKey, Customs} \union Plus(SanitizePropertySlugs.up)

\* A migration that is recorded has left all it is for, wherever the process
\* died before and however often it was started again, by whichever script;
\* but for Losable, and those only if it did die or was taken back.
RecordedIsDone ==
  \A m \in ToSet(recorded) \ half :
    Lasting[m] \ (IF crashes + reverts = 0 THEN {} ELSE Losable) \subseteq schema

\* The migrations whose statements fail when they are repeated.
Unguarded ==
  {<<"up", m>> : m \in {AddListingPageSeoTable, AddPropertySeoTable, AddCrmOnlyPropertyFields,
     AddProjectCodeColumn, AddParkingTypeAndFloorFacing, AddProjectApartmentVillaDetails}}
  \union
  {<<"down", m>> : m \in {AddPropertySeoTable, AddCrmOnlyPropertyFields, AddProjectCodeColumn,
     AddParkingTypeAndFloorFacing, AddProjectApartmentVillaDetails, AddMobileCoverImage, AddProjectVideoUrls,
     AddIndustrialPortingFields, AddCommercialPortingFields, AddProjectVideos, OwnerPostIntake}}

\* Only they can be left such that every later start stops at the same
\* statement until a person repairs the schema; none is if nothing died.
StuckOnlyUnguarded ==
  /\ \A d \in dead : <<d[1], Migrations[d[2]]>> \in Unguarded
  /\ crashes = 0 => dead = {}
===============================================================================
